---- MODULE Spec2Model ----
(***************************************************************************)
(* Model of the Lightning web components of the hierarchy package:         *)
(*   timelineHistoryViewer  (record-page timeline, type filters, paging)   *)
(*   historyReportTab       (cross-object report, client filters, paging)  *)
(*   timelineHistoryConfig  (modal that adds / removes child configs)      *)
(*   timelineItem           (one row of the timeline, title navigation)    *)
(* Each component is a separate instance with its own fields; a behaviour  *)
(* follows one mounted component.  Handlers run to completion up to their  *)
(* first await; the continuation after the await is a separate step that   *)
(* consumes the in-flight request.                                         *)
(***************************************************************************)
EXTENDS Integers, Sequences, FiniteSets, Bags, TLC

VARIABLES
    component,   \* which component this behaviour mounts
    viewer,      \* fields of TimelineHistoryViewer
    report,      \* fields of HistoryReportTab
    config,      \* fields of TimelineHistoryConfig
    item,        \* fields of TimelineItem, the event it handled last, its navigations
    wires,       \* provisioning state of the viewer's @wire adapters
    net,         \* remote calls in flight (a bag: identical calls can overlap)
    op,          \* the handler / callback that ran last
    seen         \* observations: rows seen since the first page, refreshes started,
                 \* the browser's time zone, the last reading of new Date(), the
                 \* query of the last handleApplyFilters, the events the
                 \* configuration modal dispatched in its last step with the
                 \* message of its error toast, and the error value that
                 \* failing calls and wires deliver where it is fixed beforehand

vars == <<component, viewer, report, config, item, wires, net, op, seen>>

-----------------------------------------------------------------------------
(* Bounds of the exploration *)

\* page limit of the timeline (the @api property maxRecords, instantiated small)
maxRecords == 2
\* most rows the server ever hands to one component between two resets
MaxRows == 2
\* largest total the count endpoints report
MaxTotal == 2
\* most remote calls in flight at once
MaxInFlight == 2
\* most refreshes of the timeline in one behaviour
MaxRefreshes == 1
\* most pages the report's cursor advances over
MaxPages == 2
\* most rows of existingConfigs
MaxConfigs == 3
\* most navigations one timeline item starts
MaxNavigations == 2

-----------------------------------------------------------------------------
(* Values *)

Types == {"Account", "Contact"}

undefined == "undefined"

\* the sequences over S of length at most n
RECURSIVE SeqUpTo(_, _)
SeqUpTo(S, n) ==
    IF n = 0 THEN {<<>>}
    ELSE LET shorter == SeqUpTo(S, n - 1)
         IN  shorter \cup {Append(s, x) : s \in {t \in shorter : Len(t) = n - 1}, x \in S}

Range(s) == {s[i] : i \in 1..Len(s)}

\* Array.prototype.includes on an array of values
includes(arr, x) == \E i \in 1..Len(arr) : arr[i] = x

\* objectTypes.findIndex(type => type.value === filterValue); indices are 1-based
\* and 0 stands for JavaScript's -1
findIndex(objectTypes, filterValue) ==
    IF \E i \in 1..Len(objectTypes) : objectTypes[i].value = filterValue
    THEN CHOOSE i \in 1..Len(objectTypes) :
            /\ objectTypes[i].value = filterValue
            /\ \A j \in 1..(i - 1) : objectTypes[j].value # filterValue
    ELSE 0

\* a timeline row, reduced to the field the viewer reads
TimelineRow == [objectApiName : Types]

\* the pages getTimelineData returns here: up to limitCount rows of alternating types
TimelinePage(n) ==
    [i \in 1..n |-> [objectApiName |-> IF i % 2 = 1 THEN "Account" ELSE "Contact"]]

TimelinePages == {TimelinePage(n) : n \in 0..maxRecords}

\* what getAvailableObjectTypes can return: lists of distinct {label, value}
ObjectTypeData == {<<>>, <<"Account">>, <<"Account", "Contact">>}

\* the number of remote calls in flight
InFlight == BagCardinality(net)

\* net after one more call is issued / after one call has settled
Issue(request) == net (+) SetToBag({request})

Settle(request) == net (-) SetToBag({request})

\* the calls in flight that one of the given endpoints serves
Pending(calls) == {request \in BagToSet(net) : request.call \in calls}

\* JavaScript values of an error: undefined, null and strings stand for
\* themselves (undefined as the string above); an object is a record with its
\* type and its properties, any other value a record with its type alone
nullValue == "null"

\* an Error-like object with its body and message properties
errorObject(body, message) == [type |-> "object", body |-> body, message |-> message]

\* the body of an Apex error: an object with a message property
errorBody(message) == [type |-> "object", message |-> message]

\* a value that is no object with properties to read
primitive(type) == [type |-> type]

\* the error object a rejected call or a failing wire carries here
Errors == { errorObject(primitive("undefined"), "Server error") }

\* the message values tried: absent, null, empty and two texts
Messages == {undefined, nullValue, "", "Server error", "Denied"}

\* the body values tried: absent, null, an array of errors (as the UI API
\* delivers) and an object with each message value
Bodies ==
    {primitive("undefined"), primitive("null"), primitive("array")}
       \cup {errorBody(message) : message \in Messages}

\* the error values tried: undefined, null, a string thrown as it is, and an
\* object with each body and each message value
ErrorValues ==
    {primitive("undefined"), primitive("null"), primitive("string")}
       \cup {errorObject(body, message) : body \in Bodies, message \in Messages}

\* error?.body: undefined when error is undefined or null or has no body
optionalBody(error) ==
    IF error.type = "object" THEN error.body ELSE primitive("undefined")

\* value?.message: undefined when value is undefined or null or has no message
optionalMessage(value) ==
    IF value.type = "object" THEN value.message ELSE undefined

\* ToBoolean of a message: undefined, null and '' are falsy
truthy(value) == value \notin {undefined, nullValue, ""}

\* mutant: error.message is preferred to error.body.message
viewer_getErrorMessage_PrefersMessage(error) ==
    IF truthy(optionalMessage(error))
    THEN optionalMessage(error)
    ELSE IF truthy(optionalMessage(optionalBody(error)))
    THEN optionalMessage(optionalBody(error))
    ELSE "An unexpected error occurred."

\* getErrorMessage of the viewer
viewer_getErrorMessage(error) ==
    IF truthy(optionalMessage(optionalBody(error)))
    THEN optionalMessage(optionalBody(error))
    ELSE IF truthy(optionalMessage(error))
    THEN optionalMessage(error)
    ELSE "An unexpected error occurred."

-----------------------------------------------------------------------------
(* timelineHistoryViewer *)

viewerInit ==
    [ timelineRecords  |-> <<>>,
      filteredRecords  |-> <<>>,
      objectTypes      |-> <<>>,
      selectedFilters  |-> <<>>,
      isLoading        |-> TRUE,
      hasError         |-> FALSE,
      errorMessage     |-> "",
      totalRecordCount |-> 0,
      currentOffset    |-> 0,
      hasMoreRecords   |-> FALSE,
      showConfigModal  |-> FALSE ]

\* applyFilters: the value it assigns to filteredRecords
applyFilters(timelineRecords, selectedFilters) ==
    IF Len(selectedFilters) = 0 THEN <<>>
    ELSE SelectSeq(timelineRecords, LAMBDA record : includes(selectedFilters, record.objectApiName))

\* the component a behaviour follows; the configuration modal is also there as
\* the viewer's child while the viewer shows it
Mounted(c) ==
    \/ component = c
    \/ c = "config" /\ component = "viewer" /\ viewer.showConfigModal

\* @wire(getAvailableObjectTypes) delivers data
wiredObjectTypes(data) ==
    /\ Mounted("viewer")
    /\ wires.objectTypes = "initial"
    /\ viewer' = [viewer EXCEPT
          !.objectTypes = [i \in 1..Len(data) |->
                              [value |-> data[i], selected |-> TRUE, variant |-> "brand"]],
          !.selectedFilters = data]
    /\ wires' = [wires EXCEPT !.objectTypes = "idle"]
    /\ op' = "wiredObjectTypes"
    /\ UNCHANGED <<component, item, report, config, net, seen>>

\* @wire(getAvailableObjectTypes) delivers an error
wiredObjectTypesError ==
    /\ Mounted("viewer")
    /\ wires.objectTypes = "initial"
    /\ wires' = [wires EXCEPT !.objectTypes = "idle"]
    /\ op' = "wiredObjectTypes.error"
    /\ UNCHANGED <<component, item, viewer, report, config, net, seen>>

\* @wire(getTimelineRecordCount) delivers data
wiredRecordCount(data) ==
    /\ Mounted("viewer")
    /\ wires.recordCount # "idle"
    /\ viewer' = [viewer EXCEPT !.totalRecordCount = data]
    /\ wires' = [wires EXCEPT !.recordCount = "idle"]
    /\ op' = "wiredRecordCount"
    /\ UNCHANGED <<component, item, report, config, net, seen>>

\* @wire(getTimelineRecordCount) delivers an error
wiredRecordCountError ==
    /\ Mounted("viewer")
    /\ wires.recordCount # "idle"
    /\ wires' = [wires EXCEPT !.recordCount = "idle"]
    /\ op' = "wiredRecordCount.error"
    /\ UNCHANGED <<component, item, viewer, report, config, net, seen>>

\* @wire(getTimelineData, offsetCount 0) delivers the first page
wiredTimeline(data) ==
    /\ Mounted("viewer")
    /\ wires.timeline # "idle"
    /\ viewer' = [viewer EXCEPT
          !.isLoading = FALSE,
          !.timelineRecords = data,
          !.filteredRecords = applyFilters(data, viewer.selectedFilters),
          !.hasError = FALSE,
          !.currentOffset = Len(data),
          !.hasMoreRecords = Len(data) < viewer.totalRecordCount]
    /\ wires' = [wires EXCEPT !.timeline = "idle"]
    /\ seen' = [seen EXCEPT !.rows = Len(data), !.sinceFirstPage = TRUE]
    /\ op' = "wiredTimeline"
    /\ UNCHANGED <<component, item, report, config, net>>

\* @wire(getTimelineData) delivers an error
wiredTimelineError(error) ==
    /\ Mounted("viewer")
    /\ wires.timeline # "idle"
    /\ viewer' = [viewer EXCEPT
          !.isLoading = FALSE,
          !.hasError = TRUE,
          !.errorMessage = viewer_getErrorMessage(error)]
    /\ wires' = [wires EXCEPT !.timeline = "idle"]
    /\ op' = "wiredTimeline.error"
    /\ UNCHANGED <<component, item, report, config, net, seen>>

\* refreshApex found the cached value unchanged: the wire does not emit again
wireUnchanged(w) ==
    /\ Mounted("viewer")
    /\ wires[w] = "refresh"
    /\ wires' = [wires EXCEPT ![w] = "idle"]
    /\ op' = "refreshApex"
    /\ UNCHANGED <<component, item, viewer, report, config, net, seen>>

\* the fields of the viewer after handleFilterClick on the button of filterValue
filterClicked(v, filterValue) ==
    LET index == findIndex(v.objectTypes, filterValue)
    IN  IF index # 0
        THEN LET isSelected == ~v.objectTypes[index].selected
                 selectedFilters ==
                     IF isSelected
                     THEN Append(v.selectedFilters, filterValue)
                     ELSE SelectSeq(v.selectedFilters, LAMBDA f : f # filterValue)
             IN  [v EXCEPT
                    !.objectTypes[index] =
                        [value    |-> v.objectTypes[index].value,
                         selected |-> isSelected,
                         variant  |-> IF isSelected THEN "brand" ELSE "neutral"],
                    !.selectedFilters = selectedFilters,
                    !.filteredRecords = applyFilters(v.timelineRecords, selectedFilters)]
        ELSE v

handleFilterClick(filterValue) ==
    /\ Mounted("viewer")
    /\ viewer' = filterClicked(viewer, filterValue)
    /\ op' = "handleFilterClick"
    /\ UNCHANGED <<component, item, report, config, wires, net, seen>>

handleSelectAll ==
    /\ Mounted("viewer")
    /\ LET objectTypes == [i \in 1..Len(viewer.objectTypes) |->
                              [value    |-> viewer.objectTypes[i].value,
                               selected |-> TRUE,
                               variant  |-> "brand"]]
           selectedFilters == [i \in 1..Len(objectTypes) |-> objectTypes[i].value]
       IN  viewer' = [viewer EXCEPT
              !.objectTypes = objectTypes,
              !.selectedFilters = selectedFilters,
              !.filteredRecords = applyFilters(viewer.timelineRecords, selectedFilters)]
    /\ op' = "handleSelectAll"
    /\ UNCHANGED <<component, item, report, config, wires, net, seen>>

\* mutant: the toggles are cleared but the selection list is kept
handleClearAll_KeepsSelection ==
    /\ Mounted("viewer")
    /\ viewer' = [viewer EXCEPT
          !.objectTypes = [i \in 1..Len(viewer.objectTypes) |->
                              [value    |-> viewer.objectTypes[i].value,
                               selected |-> FALSE,
                               variant  |-> "neutral"]],
          !.filteredRecords = applyFilters(viewer.timelineRecords, viewer.selectedFilters)]
    /\ op' = "handleClearAll"
    /\ UNCHANGED <<component, item, report, config, wires, net, seen>>

handleClearAll ==
    /\ Mounted("viewer")
    /\ viewer' = [viewer EXCEPT
          !.objectTypes = [i \in 1..Len(viewer.objectTypes) |->
                              [value    |-> viewer.objectTypes[i].value,
                               selected |-> FALSE,
                               variant  |-> "neutral"]],
          !.selectedFilters = <<>>,
          !.filteredRecords = applyFilters(viewer.timelineRecords, <<>>)]
    /\ op' = "handleClearAll"
    /\ UNCHANGED <<component, item, report, config, wires, net, seen>>

\* the remote call handleLoadMore issues
getTimelineData(offsetCount) ==
    [call |-> "getTimelineData", limitCount |-> maxRecords, offsetCount |-> offsetCount]

\* handleLoadMore up to its await
viewer_handleLoadMore ==
    /\ Mounted("viewer")
    /\ IF ~viewer.hasMoreRecords
       THEN UNCHANGED <<viewer, net>>
       ELSE /\ InFlight < MaxInFlight
            /\ viewer' = [viewer EXCEPT !.isLoading = TRUE]
            /\ net' = Issue(getTimelineData(viewer.currentOffset))
    /\ op' = "handleLoadMore"
    /\ UNCHANGED <<component, item, report, config, wires, seen>>

\* mutant: the offset advances by the page limit, not by the rows returned
viewer_handleLoadMoreResolved_AdvancesByLimit(request, moreRecords) ==
    /\ Mounted("viewer")
    /\ BagIn(request, net)
    /\ request.call = "getTimelineData"
    /\ Len(moreRecords) <= request.limitCount
    /\ Len(viewer.timelineRecords) + Len(moreRecords) <= MaxRows
    /\ IF Len(moreRecords) > 0
       THEN LET timelineRecords == viewer.timelineRecords \o moreRecords
                currentOffset == viewer.currentOffset + request.limitCount
            IN  viewer' = [viewer EXCEPT
                   !.timelineRecords = timelineRecords,
                   !.currentOffset = currentOffset,
                   !.hasMoreRecords = currentOffset < viewer.totalRecordCount,
                   !.filteredRecords = applyFilters(timelineRecords, viewer.selectedFilters),
                   !.isLoading = FALSE]
       ELSE viewer' = [viewer EXCEPT !.hasMoreRecords = FALSE, !.isLoading = FALSE]
    /\ net' = Settle(request)
    /\ seen' = [seen EXCEPT !.rows = @ + Len(moreRecords)]
    /\ op' = "handleLoadMore.resolved"
    /\ UNCHANGED <<component, item, report, config, wires>>

\* mutant: the has-more comparison is off by one
viewer_handleLoadMoreResolved_OffByOne(request, moreRecords) ==
    /\ Mounted("viewer")
    /\ BagIn(request, net)
    /\ request.call = "getTimelineData"
    /\ Len(moreRecords) <= request.limitCount
    /\ Len(viewer.timelineRecords) + Len(moreRecords) <= MaxRows
    /\ IF Len(moreRecords) > 0
       THEN LET timelineRecords == viewer.timelineRecords \o moreRecords
                currentOffset == viewer.currentOffset + Len(moreRecords)
            IN  viewer' = [viewer EXCEPT
                   !.timelineRecords = timelineRecords,
                   !.currentOffset = currentOffset,
                   !.hasMoreRecords = currentOffset <= viewer.totalRecordCount,
                   !.filteredRecords = applyFilters(timelineRecords, viewer.selectedFilters),
                   !.isLoading = FALSE]
       ELSE viewer' = [viewer EXCEPT !.hasMoreRecords = FALSE, !.isLoading = FALSE]
    /\ net' = Settle(request)
    /\ seen' = [seen EXCEPT !.rows = @ + Len(moreRecords)]
    /\ op' = "handleLoadMore.resolved"
    /\ UNCHANGED <<component, item, report, config, wires>>

\* mutant: a page that arrives clears the error state
viewer_handleLoadMoreResolved_ClearsError(request, moreRecords) ==
    /\ Mounted("viewer")
    /\ BagIn(request, net)
    /\ request.call = "getTimelineData"
    /\ Len(moreRecords) <= request.limitCount
    /\ Len(viewer.timelineRecords) + Len(moreRecords) <= MaxRows
    /\ IF Len(moreRecords) > 0
       THEN LET timelineRecords == viewer.timelineRecords \o moreRecords
                currentOffset == viewer.currentOffset + Len(moreRecords)
            IN  viewer' = [viewer EXCEPT
                   !.timelineRecords = timelineRecords,
                   !.currentOffset = currentOffset,
                   !.hasMoreRecords = currentOffset < viewer.totalRecordCount,
                   !.filteredRecords = applyFilters(timelineRecords, viewer.selectedFilters),
                   !.isLoading = FALSE,
                   !.hasError = FALSE]
       ELSE viewer' = [viewer EXCEPT !.hasMoreRecords = FALSE, !.isLoading = FALSE,
                                      !.hasError = FALSE]
    /\ net' = Settle(request)
    /\ seen' = [seen EXCEPT !.rows = @ + Len(moreRecords)]
    /\ op' = "handleLoadMore.resolved"
    /\ UNCHANGED <<component, item, report, config, wires>>

\* handleLoadMore after the await: getTimelineData resolved with moreRecords
viewer_handleLoadMoreResolved(request, moreRecords) ==
    /\ Mounted("viewer")
    /\ BagIn(request, net)
    /\ request.call = "getTimelineData"
    /\ Len(moreRecords) <= request.limitCount
    /\ Len(viewer.timelineRecords) + Len(moreRecords) <= MaxRows
    /\ IF Len(moreRecords) > 0
       THEN LET timelineRecords == viewer.timelineRecords \o moreRecords
                currentOffset == viewer.currentOffset + Len(moreRecords)
            IN  viewer' = [viewer EXCEPT
                   !.timelineRecords = timelineRecords,
                   !.currentOffset = currentOffset,
                   !.hasMoreRecords = currentOffset < viewer.totalRecordCount,
                   !.filteredRecords = applyFilters(timelineRecords, viewer.selectedFilters),
                   !.isLoading = FALSE]
       ELSE viewer' = [viewer EXCEPT !.hasMoreRecords = FALSE, !.isLoading = FALSE]
    /\ net' = Settle(request)
    /\ seen' = [seen EXCEPT !.rows = @ + Len(moreRecords)]
    /\ op' = "handleLoadMore.resolved"
    /\ UNCHANGED <<component, item, report, config, wires>>

\* handleLoadMore after the await: getTimelineData rejected
viewer_handleLoadMoreRejected(request, error) ==
    /\ Mounted("viewer")
    /\ BagIn(request, net)
    /\ request.call = "getTimelineData"
    /\ viewer' = [viewer EXCEPT
          !.hasError = TRUE,
          !.errorMessage = viewer_getErrorMessage(error),
          !.isLoading = FALSE]
    /\ net' = Settle(request)
    /\ op' = "handleLoadMore.rejected"
    /\ UNCHANGED <<component, item, report, config, wires, seen>>

\* the pair of refreshApex calls refreshData awaits
refreshApex == [call |-> "refreshApex"]

\* refreshData up to its await (handleRefresh and handleConfigSaved call it)
refreshData ==
    /\ Mounted("viewer")
    /\ InFlight < MaxInFlight
    /\ seen.refreshes < MaxRefreshes
    /\ wires.timeline # "initial" /\ wires.recordCount # "initial"
    /\ viewer' = [viewer EXCEPT !.isLoading = TRUE, !.currentOffset = 0]
    /\ wires' = [wires EXCEPT !.timeline = "refresh", !.recordCount = "refresh"]
    /\ net' = Issue(refreshApex)
    /\ seen' = [seen EXCEPT !.sinceFirstPage = FALSE, !.refreshes = @ + 1]
    /\ op' = "refreshData"
    /\ UNCHANGED <<component, item, report, config>>

\* refreshData after the await: both refreshApex promises settled
refreshDataSettled(request) ==
    /\ Mounted("viewer")
    /\ BagIn(request, net)
    /\ request.call = "refreshApex"
    /\ wires.timeline = "idle" /\ wires.recordCount = "idle"
    /\ viewer' = [viewer EXCEPT !.isLoading = FALSE]
    /\ net' = Settle(request)
    /\ op' = "refreshData.settled"
    /\ UNCHANGED <<component, item, report, config, wires, seen>>

handleConfigClick ==
    /\ Mounted("viewer")
    /\ viewer' = [viewer EXCEPT !.showConfigModal = TRUE]
    /\ op' = "handleConfigClick"
    /\ UNCHANGED <<component, item, report, config, wires, net, seen>>

handleConfigClose ==
    /\ Mounted("viewer")
    /\ viewer' = [viewer EXCEPT !.showConfigModal = FALSE]
    /\ op' = "handleConfigClose"
    /\ UNCHANGED <<component, item, report, config, wires, net, seen>>

\* mutant: the modal is closed but no refresh is started
handleConfigSaved_OnlyCloses ==
    /\ Mounted("viewer")
    /\ viewer' = [viewer EXCEPT !.showConfigModal = FALSE]
    /\ op' = "handleConfigSaved"
    /\ UNCHANGED <<component, item, report, config, wires, net, seen>>

\* handleConfigSaved: closes the modal and runs refreshData up to its await
handleConfigSaved ==
    /\ Mounted("viewer")
    /\ InFlight < MaxInFlight
    /\ seen.refreshes < MaxRefreshes
    /\ wires.timeline # "initial" /\ wires.recordCount # "initial"
    /\ viewer' = [viewer EXCEPT
          !.showConfigModal = FALSE,
          !.isLoading = TRUE,
          !.currentOffset = 0]
    /\ wires' = [wires EXCEPT !.timeline = "refresh", !.recordCount = "refresh"]
    /\ net' = Issue(refreshApex)
    /\ seen' = [seen EXCEPT !.sinceFirstPage = FALSE, !.refreshes = @ + 1]
    /\ op' = "handleConfigSaved"
    /\ UNCHANGED <<component, item, report, config>>

viewerNext ==
    \/ \E data \in ObjectTypeData : wiredObjectTypes(data)
    \/ wiredObjectTypesError
    \/ \E data \in 0..MaxTotal : wiredRecordCount(data)
    \/ wiredRecordCountError
    \/ \E data \in TimelinePages : wiredTimeline(data)
    \/ \E error \in Errors : wiredTimelineError(error)
    \/ \E w \in {"timeline", "recordCount"} : wireUnchanged(w)
    \/ \E filterValue \in Types : handleFilterClick(filterValue)
    \/ handleSelectAll
    \/ handleClearAll
    \/ viewer_handleLoadMore
    \/ \E request \in BagToSet(net), moreRecords \in TimelinePages :
          viewer_handleLoadMoreResolved(request, moreRecords)
    \/ \E request \in BagToSet(net), error \in Errors :
          viewer_handleLoadMoreRejected(request, error)
    \/ refreshData
    \/ \E request \in BagToSet(net) : refreshDataSettled(request)

-----------------------------------------------------------------------------
(* historyReportTab *)

PAGE_SIZE == 50

\* strings are sequences of characters; null stands for a missing field value
null == <<"null">>

Chars == {"A", "B", "a", "b"}

\* UTF-16 code unit of a character
charCode(c) == CASE c = "A" -> 65 [] c = "B" -> 66 [] c = "a" -> 97 [] c = "b" -> 98

\* String.prototype.toLowerCase
toLowerCase(str) ==
    [i \in 1..Len(str) |-> CASE str[i] = "A" -> "a" [] str[i] = "B" -> "b" [] OTHER -> str[i]]

\* String.prototype.includes
strIncludes(str, q) ==
    \E i \in 0..(Len(str) - Len(q)) : SubSeq(str, i + 1, i + Len(q)) = q

\* the < of two strings: lexicographic by code unit
RECURSIVE strLess(_, _)
strLess(a, b) ==
    IF Len(b) = 0 THEN FALSE
    ELSE IF Len(a) = 0 THEN TRUE
    ELSE IF charCode(a[1]) # charCode(b[1]) THEN charCode(a[1]) < charCode(b[1])
    ELSE strLess(Tail(a), Tail(b))

\* the rows the report endpoint serves, reduced to the fields the component reads
ReportData ==
    << [fieldChanged |-> <<"A", "b">>, changedBy |-> <<"b">>],
       [fieldChanged |-> <<"a">>,      changedBy |-> null],
       [fieldChanged |-> null,         changedBy |-> <<"B", "a">>],
       [fieldChanged |-> <<"A">>,      changedBy |-> <<"b", "a">>] >>

\* the object whose history the endpoint returns for a selection: here the first one
\* selected; how the endpoint answers an empty selection is not part of these
\* components, it is taken to answer with rows of the first configured object
objectLabel(selectedObjectApiNames) ==
    IF Len(selectedObjectApiNames) = 0 THEN "Account" ELSE selectedObjectApiNames[1]

\* the row the endpoint serves at position k (from 0) of a result: the pages of
\* one result hold different rows
ReportRow(k) == ReportData[(k % Len(ReportData)) + 1]

\* result.records of getHistoryReport: a page of n rows of the objects asked for,
\* starting at the page the request's offsetCount names
ReportPage(request, n) ==
    [i \in 1..n |->
        [ objectLabel  |-> objectLabel(request.selectedObjectApiNames),
          fieldChanged |-> ReportRow(i - 1 + request.offsetCount \div PAGE_SIZE).fieldChanged,
          changedBy    |-> ReportRow(i - 1 + request.offsetCount \div PAGE_SIZE).changedBy ]]

\* what getHistoryReport can resolve with
ReportResults(request) ==
    [records : {ReportPage(request, n) : n \in 0..MaxRows}, hasMore : BOOLEAN]

\* what the dual listbox can hand to handleObjectSelection
ObjectSelections == {<<"Account">>, <<"Contact">>}

\* what the user can type into the Field Changed input
FilterInputs == {<<>>, <<"A">>, <<"b">>}

\* what the user can type into the Changed By input
ChangedByInputs == {<<>>, <<"b">>}

\* what getHistoryReportCount can resolve with; the report only stores the number
ReportCounts == {0, MaxTotal}

SortableFields == {"fieldChanged", "changedBy"}

\* the event.detail of the column sorts tried: each column, each direction
SortInputs ==
    { [fieldName |-> "fieldChanged", sortDirection |-> "asc"],
      [fieldName |-> "changedBy",    sortDirection |-> "desc"] }

\* totalCount is null or a number
nullCount == <<>>

reportInit ==
    [ selectedObjects |-> <<>>,
      startDate       |-> <<>>,
      endDate         |-> <<>>,
      activePreset    |-> "",
      fieldFilter     |-> <<>>,
      changedByFilter |-> <<>>,
      allLoadedData   |-> <<>>,
      tableData       |-> <<>>,
      totalCount      |-> nullCount,
      hasMore         |-> FALSE,
      hasSearched     |-> FALSE,
      isPageLoading   |-> FALSE,
      isTableLoading  |-> FALSE,
      errorMessage    |-> "",
      sortedBy        |-> "changedDate",
      sortedDirection |-> "desc",
      currentOffset   |-> 0 ]

\* a || b
or(a, b) == IF truthy(a) THEN a ELSE b

\* _extractMessage
_extractMessage(error) ==
    or(or(optionalMessage(optionalBody(error)), optionalMessage(error)),
       "An unexpected error occurred.")

\* mutant: the filters are applied to the rows currently shown
_applyClientFilters_OnVisibleRows(allLoadedData, fieldFilter, changedByFilter) ==
    LET rows1 == IF Len(fieldFilter) > 0
                 THEN SelectSeq(report.tableData, LAMBDA r :
                          r.fieldChanged # null
                              /\ strIncludes(toLowerCase(r.fieldChanged), toLowerCase(fieldFilter)))
                 ELSE report.tableData
    IN  IF Len(changedByFilter) > 0
        THEN SelectSeq(rows1, LAMBDA r :
                 r.changedBy # null
                     /\ strIncludes(toLowerCase(r.changedBy), toLowerCase(changedByFilter)))
        ELSE rows1

\* mutant: the filters compare with the case of the letters as typed
_applyClientFilters_CaseSensitive(allLoadedData, fieldFilter, changedByFilter) ==
    LET rows1 == IF Len(fieldFilter) > 0
                 THEN SelectSeq(allLoadedData, LAMBDA r :
                          r.fieldChanged # null /\ strIncludes(r.fieldChanged, fieldFilter))
                 ELSE allLoadedData
    IN  IF Len(changedByFilter) > 0
        THEN SelectSeq(rows1, LAMBDA r :
                 r.changedBy # null /\ strIncludes(r.changedBy, changedByFilter))
        ELSE rows1

\* _applyClientFilters: the value it assigns to tableData
_applyClientFilters(allLoadedData, fieldFilter, changedByFilter) ==
    LET rows1 == IF Len(fieldFilter) > 0
                 THEN SelectSeq(allLoadedData, LAMBDA r :
                          r.fieldChanged # null
                              /\ strIncludes(toLowerCase(r.fieldChanged), toLowerCase(fieldFilter)))
                 ELSE allLoadedData
    IN  IF Len(changedByFilter) > 0
        THEN SelectSeq(rows1, LAMBDA r :
                 r.changedBy # null
                     /\ strIncludes(toLowerCase(r.changedBy), toLowerCase(changedByFilter)))
        ELSE rows1

\* mutant: the filter narrows the loaded dataset itself
handleFieldFilterInput_FiltersInPlace(value) ==
    /\ Mounted("report")
    /\ report' = [report EXCEPT
          !.fieldFilter = value,
          !.allLoadedData = _applyClientFilters(report.allLoadedData, value, report.changedByFilter),
          !.tableData = _applyClientFilters(report.allLoadedData, value, report.changedByFilter)]
    /\ op' = "handleFieldFilterInput"
    /\ UNCHANGED <<component, item, viewer, config, wires, net, seen>>

handleFieldFilterInput(value) ==
    /\ Mounted("report")
    /\ report' = [report EXCEPT
          !.fieldFilter = value,
          !.tableData = _applyClientFilters(report.allLoadedData, value, report.changedByFilter)]
    /\ op' = "handleFieldFilterInput"
    /\ UNCHANGED <<component, item, viewer, config, wires, net, seen>>

handleChangedByFilterInput(value) ==
    /\ Mounted("report")
    /\ report' = [report EXCEPT
          !.changedByFilter = value,
          !.tableData = _applyClientFilters(report.allLoadedData, report.fieldFilter, value)]
    /\ op' = "handleChangedByFilterInput"
    /\ UNCHANGED <<component, item, viewer, config, wires, net, seen>>

\* the remote call handleLoadMore issues
getHistoryReport(offsetCount) ==
    [ call                   |-> "getHistoryReport",
      selectedObjectApiNames |-> report.selectedObjects,
      startDateStr           |-> report.startDate,
      endDateStr             |-> report.endDate,
      limitCount             |-> PAGE_SIZE,
      offsetCount            |-> offsetCount ]

\* the Promise.all of getHistoryReport (offset 0) and getHistoryReportCount
getHistoryReportAndCount ==
    [ call                   |-> "Promise.all",
      selectedObjectApiNames |-> report.selectedObjects,
      startDateStr           |-> report.startDate,
      endDateStr             |-> report.endDate,
      limitCount             |-> PAGE_SIZE,
      offsetCount            |-> 0 ]

handleObjectSelection(value) ==
    /\ Mounted("report")
    /\ report' = [report EXCEPT !.selectedObjects = value]
    /\ op' = "handleObjectSelection"
    /\ UNCHANGED <<component, item, viewer, config, wires, net, seen>>

\* handleApplyFilters up to its await
handleApplyFilters ==
    /\ Mounted("report")
    /\ InFlight < MaxInFlight
    /\ report' = [report EXCEPT
          !.allLoadedData = <<>>,
          !.tableData = <<>>,
          !.currentOffset = 0,
          !.hasMore = FALSE,
          !.totalCount = nullCount,
          !.hasSearched = FALSE,
          !.errorMessage = "",
          !.isPageLoading = TRUE]
    /\ net' = Issue(getHistoryReportAndCount)
    /\ seen' = [seen EXCEPT !.applied = [ selectedObjects |-> report.selectedObjects,
                                          startDate       |-> report.startDate,
                                          endDate         |-> report.endDate ]]
    /\ op' = "handleApplyFilters"
    /\ UNCHANGED <<component, item, viewer, config, wires>>

\* mutant: a response to a query other than the one in the filter panel is dropped
handleApplyFiltersResolved_DropsSuperseded(request, reportResult, count) ==
    /\ Mounted("report")
    /\ BagIn(request, net)
    /\ request.call = "Promise.all"
    /\ report' = IF request.selectedObjectApiNames # report.selectedObjects
                 THEN [report EXCEPT !.isPageLoading = FALSE]
                 ELSE [report EXCEPT
                          !.allLoadedData = reportResult.records,
                          !.hasMore = reportResult.hasMore,
                          !.totalCount = <<count>>,
                          !.hasSearched = TRUE,
                          !.tableData = _applyClientFilters(reportResult.records,
                                            report.fieldFilter, report.changedByFilter),
                          !.isPageLoading = FALSE]
    /\ net' = Settle(request)
    /\ op' = "handleApplyFilters.resolved"
    /\ UNCHANGED <<component, item, viewer, config, wires, seen>>

\* handleApplyFilters after the await: both calls resolved
handleApplyFiltersResolved(request, reportResult, count) ==
    /\ Mounted("report")
    /\ BagIn(request, net)
    /\ request.call = "Promise.all"
    /\ report' = [report EXCEPT
          !.allLoadedData = reportResult.records,
          !.hasMore = reportResult.hasMore,
          !.totalCount = <<count>>,
          !.hasSearched = TRUE,
          !.tableData = _applyClientFilters(reportResult.records,
                                            report.fieldFilter, report.changedByFilter),
          !.isPageLoading = FALSE]
    /\ net' = Settle(request)
    /\ op' = "handleApplyFilters.resolved"
    /\ UNCHANGED <<component, item, viewer, config, wires, seen>>

\* handleApplyFilters after the await: getHistoryReport or getHistoryReportCount
\* rejected, so Promise.all rejected with that error
handleApplyFiltersRejected(request, error) ==
    /\ Mounted("report")
    /\ BagIn(request, net)
    /\ request.call = "Promise.all"
    /\ report' = [report EXCEPT
          !.errorMessage = _extractMessage(error),
          !.isPageLoading = FALSE]
    /\ net' = Settle(request)
    /\ op' = "handleApplyFilters.rejected"
    /\ UNCHANGED <<component, item, viewer, config, wires, seen>>

\* mutant: the hasMore test is missing from the guard
report_handleLoadMore_NoHasMoreGuard ==
    /\ Mounted("report")
    /\ IF report.isTableLoading
       THEN UNCHANGED <<report, net>>
       ELSE /\ InFlight < MaxInFlight
            /\ report.currentOffset < MaxPages * PAGE_SIZE
            /\ report' = [report EXCEPT
                  !.isTableLoading = TRUE,
                  !.currentOffset = @ + PAGE_SIZE]
            /\ net' = Issue(getHistoryReport(report.currentOffset + PAGE_SIZE))
    /\ op' = "handleLoadMore"
    /\ UNCHANGED <<component, item, viewer, config, wires, seen>>

\* mutant: the page at the offset before the increment is requested
report_handleLoadMore_RequestsOldOffset ==
    /\ Mounted("report")
    /\ IF ~report.hasMore \/ report.isTableLoading
       THEN UNCHANGED <<report, net>>
       ELSE /\ InFlight < MaxInFlight
            /\ report.currentOffset < MaxPages * PAGE_SIZE
            /\ report' = [report EXCEPT
                  !.isTableLoading = TRUE,
                  !.currentOffset = @ + PAGE_SIZE]
            /\ net' = Issue(getHistoryReport(report.currentOffset))
    /\ op' = "handleLoadMore"
    /\ UNCHANGED <<component, item, viewer, config, wires, seen>>

\* handleLoadMore up to the promise chain
report_handleLoadMore ==
    /\ Mounted("report")
    /\ IF ~report.hasMore \/ report.isTableLoading
       THEN UNCHANGED <<report, net>>
       ELSE /\ InFlight < MaxInFlight
            /\ report.currentOffset < MaxPages * PAGE_SIZE
            /\ report' = [report EXCEPT
                  !.isTableLoading = TRUE,
                  !.currentOffset = @ + PAGE_SIZE]
            /\ net' = Issue(getHistoryReport(report.currentOffset + PAGE_SIZE))
    /\ op' = "handleLoadMore"
    /\ UNCHANGED <<component, item, viewer, config, wires, seen>>

\* handleLoadMore's .then and .finally
report_handleLoadMoreResolved(request, result) ==
    /\ Mounted("report")
    /\ BagIn(request, net)
    /\ request.call = "getHistoryReport"
    /\ Len(report.allLoadedData) + Len(result.records) <= MaxRows
    /\ LET allLoadedData == report.allLoadedData \o result.records
       IN  report' = [report EXCEPT
              !.allLoadedData = allLoadedData,
              !.hasMore = result.hasMore,
              !.tableData = _applyClientFilters(allLoadedData,
                                                report.fieldFilter, report.changedByFilter),
              !.isTableLoading = FALSE]
    /\ net' = Settle(request)
    /\ op' = "handleLoadMore.resolved"
    /\ UNCHANGED <<component, item, viewer, config, wires, seen>>

\* mutant: a failed load-more takes the cursor back by one page
report_handleLoadMoreRejected_RollsBack(request, error) ==
    /\ Mounted("report")
    /\ BagIn(request, net)
    /\ request.call = "getHistoryReport"
    /\ report' = [report EXCEPT !.isTableLoading = FALSE, !.currentOffset = @ - PAGE_SIZE]
    /\ net' = Settle(request)
    /\ op' = "handleLoadMore.rejected"
    /\ UNCHANGED <<component, item, viewer, config, wires, seen>>

\* handleLoadMore's .catch and .finally
report_handleLoadMoreRejected(request, error) ==
    /\ Mounted("report")
    /\ BagIn(request, net)
    /\ request.call = "getHistoryReport"
    /\ report' = [report EXCEPT !.isTableLoading = FALSE]
    /\ net' = Settle(request)
    /\ op' = "handleLoadMore.rejected"
    /\ UNCHANGED <<component, item, viewer, config, wires, seen>>

\* the key handleSort compares: a[fieldName] ?? '', lower-cased
sortKey(row, fieldName) ==
    IF row[fieldName] = null THEN <<>> ELSE toLowerCase(row[fieldName])

\* the comparator handleSort passes to Array.prototype.sort
compare(a, b, fieldName, multiplier) ==
    IF strLess(sortKey(a, fieldName), sortKey(b, fieldName)) THEN (0 - 1) * multiplier
    ELSE IF strLess(sortKey(b, fieldName), sortKey(a, fieldName)) THEN 1 * multiplier
    ELSE 0

\* Array.prototype.sort, which is stable: each row is inserted behind the rows
\* that do not compare greater than it
RECURSIVE sort(_, _, _)
sort(rows, fieldName, multiplier) ==
    IF Len(rows) = 0 THEN <<>>
    ELSE LET init == sort(SubSeq(rows, 1, Len(rows) - 1), fieldName, multiplier)
             last == rows[Len(rows)]
             k == Cardinality({i \in 1..Len(init) :
                                  compare(init[i], last, fieldName, multiplier) <= 0})
         IN  SubSeq(init, 1, k) \o <<last>> \o SubSeq(init, k + 1, Len(init))

\* mutant: the values are compared as they are, without lower-casing
handleSort_CaseSensitive(fieldName, sortDirection) ==
    /\ Mounted("report")
    /\ LET multiplier == IF sortDirection = "asc" THEN 1 ELSE 0 - 1
           key(row) == IF row[fieldName] = null THEN <<>> ELSE row[fieldName]
           RECURSIVE sorted(_)
           sorted(rows) ==
               IF Len(rows) = 0 THEN <<>>
               ELSE LET init == sorted(SubSeq(rows, 1, Len(rows) - 1))
                        last == rows[Len(rows)]
                        k == Cardinality({i \in 1..Len(init) :
                                 IF multiplier = 1
                                 THEN ~strLess(key(last), key(init[i]))
                                 ELSE ~strLess(key(init[i]), key(last))})
                    IN  SubSeq(init, 1, k) \o <<last>> \o SubSeq(init, k + 1, Len(init))
       IN  report' = [report EXCEPT
              !.sortedBy = fieldName,
              !.sortedDirection = sortDirection,
              !.tableData = sorted(report.tableData)]
    /\ op' = "handleSort"
    /\ UNCHANGED <<component, item, viewer, config, wires, net, seen>>

handleSort(fieldName, sortDirection) ==
    /\ Mounted("report")
    /\ LET multiplier == IF sortDirection = "asc" THEN 1 ELSE 0 - 1
       IN  report' = [report EXCEPT
              !.sortedBy = fieldName,
              !.sortedDirection = sortDirection,
              !.tableData = sort(report.tableData, fieldName, multiplier)]
    /\ op' = "handleSort"
    /\ UNCHANGED <<component, item, viewer, config, wires, net, seen>>

reportNext ==
    \/ \E value \in FilterInputs : handleFieldFilterInput(value)
    \/ \E value \in ChangedByInputs : handleChangedByFilterInput(value)
    \/ handleApplyFilters
    \/ \E request \in Pending({"Promise.all"}) :
          \E reportResult \in ReportResults(request), count \in ReportCounts :
             handleApplyFiltersResolved(request, reportResult, count)
    \/ \E request \in BagToSet(net), error \in Errors :
          handleApplyFiltersRejected(request, error)
    \/ report_handleLoadMore
    \/ \E request \in Pending({"getHistoryReport"}) :
          \E result \in ReportResults(request) :
             report_handleLoadMoreResolved(request, result)
    \/ \E request \in BagToSet(net), error \in Errors :
          report_handleLoadMoreRejected(request, error)
    \/ \E detail \in SortInputs : handleSort(detail.fieldName, detail.sortDirection)

-----------------------------------------------------------------------------
(* historyReportTab: the date range of the filter panel *)

\* A Date is its time value, counted here in hours since 1970-01-01T00:00Z.
\* The day number of a calendar date in the proleptic Gregorian calendar
\* (days since 1970-01-01); a day beyond the end of the month runs into the next
\* month, as in the Date constructor and setFullYear
MakeDay(year, month, date) ==
    LET y   == IF month <= 2 THEN year - 1 ELSE year
        era == y \div 400
        yoe == y - era * 400
        mp  == (month + 9) % 12
        doy == (153 * mp + 2) \div 5 + date - 1
        doe == yoe * 365 + yoe \div 4 - yoe \div 100 + doy
    IN  era * 146097 + doe - 719468

\* the calendar date [year, month, date] of a day number; month is 1..12
civil(day) ==
    LET z   == day + 719468
        era == z \div 146097
        doe == z - era * 146097
        yoe == (doe - doe \div 1460 + doe \div 36524 - doe \div 146096) \div 365
        doy == doe - (365 * yoe + yoe \div 4 - yoe \div 100)
        mp  == (5 * doy + 2) \div 153
        m   == IF mp < 10 THEN mp + 3 ELSE mp - 9
    IN  [ year  |-> yoe + era * 400 + (IF m <= 2 THEN 1 ELSE 0),
          month |-> m,
          date  |-> doy - (153 * mp + 2) \div 5 + 1 ]

\* the time zones the browser can run in: one without daylight saving time, and one
\* an hour ahead of UTC that moves its clocks forward from the last Sunday of March,
\* 01:00 UTC, to the last Sunday of October, 01:00 UTC
TimeZones == {"UTC", "Europe/Berlin"}

\* the last Sunday on or before a day (1970-01-01 was a Thursday)
lastSunday(day) == day - ((day + 4) % 7)

\* local time minus UTC at time value t, in hours
timezoneOffset(t, timeZone) ==
    IF timeZone = "UTC" THEN 0
    ELSE LET year == civil(t \div 24).year
         IN  IF /\ t >= lastSunday(MakeDay(year, 3, 31)) * 24 + 1
                /\ t <  lastSunday(MakeDay(year, 10, 31)) * 24 + 1
             THEN 2 ELSE 1

\* the local calendar date and hour of a Date
localTime(t, timeZone) ==
    LET local == t + timezoneOffset(t, timeZone)
    IN  [ year  |-> civil(local \div 24).year,
          month |-> civil(local \div 24).month,
          date  |-> civil(local \div 24).date,
          hours |-> local % 24 ]

\* Date.prototype.getFullYear / getMonth (0-based) / getDate
getFullYear(t, timeZone) == localTime(t, timeZone).year

getMonth(t, timeZone) == localTime(t, timeZone).month - 1

getDate(t, timeZone) == localTime(t, timeZone).date

\* Date.prototype.setFullYear: the same local month, day and hour in another year
setFullYear(t, timeZone, year) ==
    LET l     == localTime(t, timeZone)
        local == MakeDay(year, l.month, l.date) * 24 + l.hours
    IN  local - timezoneOffset(local - 1, timeZone)

\* String(n) for a number n >= 0
RECURSIVE String(_)
String(n) ==
    LET digit == <<"0", "1", "2", "3", "4", "5", "6", "7", "8", "9">>[(n % 10) + 1]
    IN  IF n < 10 THEN <<digit>> ELSE String(n \div 10) \o <<digit>>

\* String.prototype.padStart with a one-character pad string
RECURSIVE padStart(_, _, _)
padStart(str, targetLength, padString) ==
    IF Len(str) >= targetLength THEN str
    ELSE padStart(padString \o str, targetLength, padString)

_formatDate(date, timeZone) ==
    LET y == getFullYear(date, timeZone)
        m == padStart(String(getMonth(date, timeZone) + 1), 2, <<"0">>)
        d == padStart(String(getDate(date, timeZone)), 2, <<"0">>)
    IN  String(y) \o <<"-">> \o m \o <<"-">> \o d

_daysAgo(from, days) == from - days * 24

\* the values of DATE_PRESETS
DATE_PRESETS == {"last7", "last30", "last90", "lastYear", "ytd"}

\* the days around which new Date() is read: the turn of the year, the leap day and
\* the two clock changes of 2024
Days ==
    UNION { (MakeDay(2024, w[1], w[2]) - 1) .. (MakeDay(2024, w[1], w[2]) + 2) :
               w \in {<<1, 1>>, <<2, 29>>, <<3, 31>>, <<10, 27>>, <<12, 31>>} }

\* the readings of new Date(): at 00:00 and at 22:00 UTC (in Europe/Berlin 23:00 in
\* winter and midnight in summer)
Instants == {day * 24 + hours : day \in Days, hours \in {0, 22}}

\* what the user can type into the From / To inputs
DateInputs == {<<>>, _formatDate(MakeDay(2024, 1, 1) * 24, "UTC")}

handleStartDateChange(value) ==
    /\ Mounted("report")
    /\ report' = [report EXCEPT !.startDate = value, !.activePreset = ""]
    /\ op' = "handleStartDateChange"
    /\ UNCHANGED <<component, item, viewer, config, wires, net, seen>>

handleEndDateChange(value) ==
    /\ Mounted("report")
    /\ report' = [report EXCEPT !.endDate = value, !.activePreset = ""]
    /\ op' = "handleEndDateChange"
    /\ UNCHANGED <<component, item, viewer, config, wires, net, seen>>

\* handleDatePreset; today is the reading of new Date()
handleDatePreset(preset, today) ==
    /\ Mounted("report")
    /\ report' = [report EXCEPT
          !.activePreset = preset,
          !.endDate = _formatDate(today, seen.timeZone),
          !.startDate =
              CASE preset = "last7"    -> _formatDate(_daysAgo(today, 6), seen.timeZone)
                [] preset = "last30"   -> _formatDate(_daysAgo(today, 29), seen.timeZone)
                [] preset = "last90"   -> _formatDate(_daysAgo(today, 89), seen.timeZone)
                [] preset = "lastYear" ->
                       LET d == setFullYear(today, seen.timeZone,
                                            getFullYear(today, seen.timeZone) - 1)
                       IN  _formatDate(d, seen.timeZone)
                [] preset = "ytd"      ->
                       String(getFullYear(today, seen.timeZone)) \o <<"-", "0", "1", "-", "0", "1">>
                [] OTHER               -> @]
    /\ seen' = [seen EXCEPT !.today = today]
    /\ op' = "handleDatePreset"
    /\ UNCHANGED <<component, item, viewer, config, wires, net>>

datesNext ==
    \/ \E value \in DateInputs : handleStartDateChange(value)
    \/ \E value \in DateInputs : handleEndDateChange(value)
    \/ \E preset \in DATE_PRESETS, today \in Instants : handleDatePreset(preset, today)

-----------------------------------------------------------------------------
(* timelineHistoryConfig *)

\* what getAvailableChildObjects returns: one object with a relationship field and
\* one without
AvailableObjectsData ==
    { << [label |-> "Task", value |-> "Task", relationshipField |-> "WhatId"],
         [label |-> "Note", value |-> "Note", relationshipField |-> ""] >> }

\* the values the object combobox can hand to handleObjectChange: an object with a
\* relationship field, one without, and one that is not in availableObjects
ObjectChoices == {"Task", "Note", "Case"}

\* a row of existingConfigs
ConfigRow(id, childObjectApiName, childObjectLabel, relationshipField, isActive) ==
    [ id                 |-> id,
      childObjectApiName |-> childObjectApiName,
      childObjectLabel   |-> childObjectLabel,
      relationshipField  |-> relationshipField,
      isActive           |-> isActive ]

\* what getChildConfigurations returns
ConfigData ==
    LET c1 == ConfigRow("c1", "Task", "Task", "WhatId", TRUE)
        c2 == ConfigRow("c2", "Event", "Event", "WhatId", FALSE)
    IN  {<<>>, <<c1, c2>>}

\* the identifiers saveChildConfiguration returns
SavedIds == {"c3"}

\* the identifiers a remove button can carry
ConfigIds == {"c2", "c3"}

configInit ==
    [ existingConfigs           |-> <<>>,
      availableObjects          |-> <<>>,
      isLoading                 |-> TRUE,
      isSaving                  |-> FALSE,
      showAddForm               |-> FALSE,
      relationshipError         |-> "",
      selectedObject            |-> "",
      selectedRelationshipField |-> "",
      childObjectLabel          |-> "" ]

\* getErrorMessage of the configuration modal
config_getErrorMessage(error) ==
    IF truthy(optionalMessage(optionalBody(error)))
    THEN optionalMessage(optionalBody(error))
    ELSE IF truthy(optionalMessage(error))
    THEN optionalMessage(error)
    ELSE "An unexpected error occurred."

\* @wire(getChildConfigurations) delivers data
wiredConfigs(data) ==
    /\ Mounted("config")
    /\ wires.configs = "initial"
    /\ config' = [config EXCEPT !.existingConfigs = data, !.isLoading = FALSE]
    /\ wires' = [wires EXCEPT !.configs = "idle"]
    /\ op' = "wiredConfigs"
    /\ seen' = [seen EXCEPT !.dispatched = <<>>, !.errorToast = ""]
    /\ UNCHANGED <<component, item, viewer, report, net>>

\* @wire(getChildConfigurations) delivers an error
wiredConfigsError(error) ==
    /\ Mounted("config")
    /\ wires.configs = "initial"
    /\ config' = [config EXCEPT !.isLoading = FALSE]
    /\ wires' = [wires EXCEPT !.configs = "idle"]
    /\ op' = "wiredConfigs.error"
    /\ seen' = [seen EXCEPT !.dispatched = <<"toast.error">>,
                            !.errorToast = config_getErrorMessage(error)]
    /\ UNCHANGED <<component, item, viewer, report, net>>

\* @wire(getAvailableChildObjects) delivers data
wiredObjects(data) ==
    /\ Mounted("config")
    /\ wires.objects = "initial"
    /\ config' = [config EXCEPT !.availableObjects = data]
    /\ wires' = [wires EXCEPT !.objects = "idle"]
    /\ op' = "wiredObjects"
    /\ seen' = [seen EXCEPT !.dispatched = <<>>, !.errorToast = ""]
    /\ UNCHANGED <<component, item, viewer, report, net>>

\* @wire(getAvailableChildObjects) delivers an error
wiredObjectsError ==
    /\ Mounted("config")
    /\ wires.objects = "initial"
    /\ wires' = [wires EXCEPT !.objects = "idle"]
    /\ op' = "wiredObjects.error"
    /\ seen' = [seen EXCEPT !.dispatched = <<>>, !.errorToast = ""]
    /\ UNCHANGED <<component, item, viewer, config, report, net>>

\* get hasRelationshipError
hasRelationshipError(c) == c.relationshipError # ""

\* get isSaveDisabled
isSaveDisabled(c) ==
    \/ c.selectedObject = ""
    \/ c.selectedRelationshipField = ""
    \/ c.isSaving
    \/ hasRelationshipError(c)

\* resetForm: the fields it assigns
resetForm(c) ==
    [c EXCEPT
        !.selectedObject = "",
        !.selectedRelationshipField = "",
        !.childObjectLabel = "",
        !.relationshipError = ""]

\* get objectOptions: the available objects that no active configuration names
objectOptions(c) ==
    LET configuredObjects ==
            {c.existingConfigs[i].childObjectApiName :
                i \in {j \in 1..Len(c.existingConfigs) : c.existingConfigs[j].isActive}}
    IN  SelectSeq(c.availableObjects, LAMBDA obj : obj.value \notin configuredObjects)

handleShowAddForm ==
    /\ Mounted("config")
    /\ config' = [resetForm(config) EXCEPT !.showAddForm = TRUE]
    /\ op' = "handleShowAddForm"
    /\ seen' = [seen EXCEPT !.dispatched = <<>>, !.errorToast = ""]
    /\ UNCHANGED <<component, item, viewer, report, wires, net>>

handleCancelAdd ==
    /\ Mounted("config")
    /\ config' = resetForm([config EXCEPT !.showAddForm = FALSE])
    /\ op' = "handleCancelAdd"
    /\ seen' = [seen EXCEPT !.dispatched = <<>>, !.errorToast = ""]
    /\ UNCHANGED <<component, item, viewer, report, wires, net>>

\* the remote call saveConfiguration issues
saveChildConfiguration(c) ==
    [ call               |-> "saveChildConfiguration",
      childObjectApiName |-> c.selectedObject,
      childObjectLabel   |-> c.childObjectLabel,
      relationshipField  |-> c.selectedRelationshipField ]

\* mutant: an object without a relationship keeps the relationship field selected before
handleObjectChange_KeepsRelationshipField(value) ==
    /\ Mounted("config")
    /\ LET found == {i \in 1..Len(config.availableObjects) :
                        config.availableObjects[i].value = value}
       IN  IF found = {}
           THEN /\ config' = [config EXCEPT
                      !.selectedObject = value,
                      !.relationshipError = "Selected object not found in available relationships.",
                      !.selectedRelationshipField = "",
                      !.childObjectLabel = ""]
                /\ UNCHANGED net
           ELSE LET selectedObjData ==
                        config.availableObjects[CHOOSE i \in found : \A j \in found : i <= j]
                IN  IF selectedObjData.relationshipField = ""
                    THEN /\ config' = [config EXCEPT
                               !.selectedObject = value,
                               !.relationshipError = "No relationship found"]
                         /\ UNCHANGED net
                    ELSE LET selected == [config EXCEPT
                                 !.selectedObject = value,
                                 !.relationshipError = "",
                                 !.selectedRelationshipField = selectedObjData.relationshipField,
                                 !.childObjectLabel = selectedObjData.label]
                         IN  /\ InFlight < MaxInFlight
                             /\ config' = [selected EXCEPT !.isSaving = TRUE]
                             /\ net' = Issue(saveChildConfiguration(selected))
    /\ op' = "handleObjectChange"
    /\ seen' = [seen EXCEPT !.dispatched = <<>>, !.errorToast = ""]
    /\ UNCHANGED <<component, item, viewer, report, wires>>

\* handleObjectChange, with saveConfiguration up to its await when the selected
\* object has a relationship field
handleObjectChange(value) ==
    /\ Mounted("config")
    /\ LET found == {i \in 1..Len(config.availableObjects) :
                        config.availableObjects[i].value = value}
       IN  IF found = {}
           THEN /\ config' = [config EXCEPT
                      !.selectedObject = value,
                      !.relationshipError = "Selected object not found in available relationships.",
                      !.selectedRelationshipField = "",
                      !.childObjectLabel = ""]
                /\ UNCHANGED net
           ELSE LET selectedObjData ==
                        config.availableObjects[CHOOSE i \in found : \A j \in found : i <= j]
                IN  IF selectedObjData.relationshipField = ""
                    THEN /\ config' = [config EXCEPT
                               !.selectedObject = value,
                               !.relationshipError = "No relationship found",
                               !.selectedRelationshipField = "",
                               !.childObjectLabel = ""]
                         /\ UNCHANGED net
                    ELSE LET selected == [config EXCEPT
                                 !.selectedObject = value,
                                 !.relationshipError = "",
                                 !.selectedRelationshipField = selectedObjData.relationshipField,
                                 !.childObjectLabel = selectedObjData.label]
                         IN  /\ InFlight < MaxInFlight
                             /\ config' = [selected EXCEPT !.isSaving = TRUE]
                             /\ net' = Issue(saveChildConfiguration(selected))
    /\ op' = "handleObjectChange"
    /\ seen' = [seen EXCEPT !.dispatched = <<>>, !.errorToast = ""]
    /\ UNCHANGED <<component, item, viewer, report, wires>>

\* saveConfiguration after the await: saveChildConfiguration resolved with recordId
saveConfigurationResolved(request, recordId) ==
    /\ Mounted("config")
    /\ BagIn(request, net)
    /\ request.call = "saveChildConfiguration"
    /\ Len(config.existingConfigs) < MaxConfigs
    /\ LET newConfig == ConfigRow(recordId, config.selectedObject, config.childObjectLabel,
                                  config.selectedRelationshipField, TRUE)
       IN  config' = [resetForm(config) EXCEPT
              !.existingConfigs = Append(config.existingConfigs, newConfig),
              !.showAddForm = FALSE,
              !.isSaving = FALSE]
    /\ net' = Settle(request)
    /\ op' = "saveConfiguration.resolved"
    /\ seen' = [seen EXCEPT !.dispatched = <<"toast.success", "save">>, !.errorToast = ""]
    /\ UNCHANGED <<component, item, viewer, report, wires>>

\* mutant: the finally block is missing, isSaving stays set after a failure
saveConfigurationRejected_LeavesSaving(request, error) ==
    /\ Mounted("config")
    /\ BagIn(request, net)
    /\ request.call = "saveChildConfiguration"
    /\ net' = Settle(request)
    /\ op' = "saveConfiguration.rejected"
    /\ seen' = [seen EXCEPT !.dispatched = <<"toast.error">>,
                            !.errorToast = config_getErrorMessage(error)]
    /\ UNCHANGED <<component, item, viewer, report, config, wires>>

\* saveConfiguration after the await: saveChildConfiguration rejected
saveConfigurationRejected(request, error) ==
    /\ Mounted("config")
    /\ BagIn(request, net)
    /\ request.call = "saveChildConfiguration"
    /\ config' = [config EXCEPT !.isSaving = FALSE]
    /\ net' = Settle(request)
    /\ op' = "saveConfiguration.rejected"
    /\ seen' = [seen EXCEPT !.dispatched = <<"toast.error">>,
                            !.errorToast = config_getErrorMessage(error)]
    /\ UNCHANGED <<component, item, viewer, report, wires>>

\* the remote call handleRemoveConfig issues
deleteChildConfiguration(configId) ==
    [call |-> "deleteChildConfiguration", configId |-> configId]

\* handleRemoveConfig up to its await
handleRemoveConfig(configId) ==
    /\ Mounted("config")
    /\ InFlight < MaxInFlight
    /\ net' = Issue(deleteChildConfiguration(configId))
    /\ op' = "handleRemoveConfig"
    /\ seen' = [seen EXCEPT !.dispatched = <<>>, !.errorToast = ""]
    /\ UNCHANGED <<component, item, viewer, report, config, wires>>

\* mutant: the row is removed by position, the first one
handleRemoveConfigResolved_RemovesFirst(request) ==
    /\ Mounted("config")
    /\ BagIn(request, net)
    /\ request.call = "deleteChildConfiguration"
    /\ config' = [config EXCEPT
          !.existingConfigs = IF Len(@) = 0 THEN @ ELSE Tail(@)]
    /\ net' = Settle(request)
    /\ op' = "handleRemoveConfig.resolved"
    /\ seen' = [seen EXCEPT !.dispatched = <<"toast.success", "save">>, !.errorToast = ""]
    /\ UNCHANGED <<component, item, viewer, report, wires>>

\* handleRemoveConfig after the await: deleteChildConfiguration resolved
handleRemoveConfigResolved(request) ==
    /\ Mounted("config")
    /\ BagIn(request, net)
    /\ request.call = "deleteChildConfiguration"
    /\ config' = [config EXCEPT
          !.existingConfigs = SelectSeq(@, LAMBDA c : c.id # request.configId)]
    /\ net' = Settle(request)
    /\ op' = "handleRemoveConfig.resolved"
    /\ seen' = [seen EXCEPT !.dispatched = <<"toast.success", "save">>, !.errorToast = ""]
    /\ UNCHANGED <<component, item, viewer, report, wires>>

\* handleRemoveConfig after the await: deleteChildConfiguration rejected
handleRemoveConfigRejected(request, error) ==
    /\ Mounted("config")
    /\ BagIn(request, net)
    /\ request.call = "deleteChildConfiguration"
    /\ net' = Settle(request)
    /\ op' = "handleRemoveConfig.rejected"
    /\ seen' = [seen EXCEPT !.dispatched = <<"toast.error">>,
                            !.errorToast = config_getErrorMessage(error)]
    /\ UNCHANGED <<component, item, viewer, report, config, wires>>

configNext ==
    \/ \E data \in ConfigData : wiredConfigs(data)
    \/ \E error \in Errors : wiredConfigsError(error)
    \/ \E data \in AvailableObjectsData : wiredObjects(data)
    \/ wiredObjectsError
    \/ handleShowAddForm
    \/ handleCancelAdd
    \/ \E value \in ObjectChoices : handleObjectChange(value)
    \/ \E request \in BagToSet(net), recordId \in SavedIds :
          saveConfigurationResolved(request, recordId)
    \/ \E request \in BagToSet(net), error \in Errors :
          saveConfigurationRejected(request, error)
    \/ \E configId \in ConfigIds : handleRemoveConfig(configId)
    \/ \E request \in BagToSet(net) : handleRemoveConfigResolved(request)
    \/ \E request \in BagToSet(net), error \in Errors :
          handleRemoveConfigRejected(request, error)

-----------------------------------------------------------------------------
(* timelineItem *)

\* the value of the property record while the parent has not set it
noRecord == [undefined |-> TRUE]

\* the records the parent can hand to the item, reduced to the fields that decide
\* navigation; undefined stands for an absent field
Records ==
    {noRecord} \cup
    [ id         : {undefined, "001"},
      recordUrl  : {undefined, "", "/001"},
      recordType : {undefined, "record", "history"} ]

\* the keys of a keydown event
Keys == {"Enter", " ", "Tab"}

itemInit ==
    [ record    |-> noRecord,
      event     |-> [type |-> "none", key |-> undefined, defaultPrevented |-> FALSE],
      navigated |-> <<>> ]

\* this.record?.id
recordId(record) == IF record = noRecord THEN undefined ELSE record.id

\* this.record?.recordUrl
recordUrl(record) == IF record = noRecord THEN undefined ELSE record.recordUrl

\* Boolean(value) of an optional string
Boolean(value) == value # undefined /\ value # ""

\* mutant: every record with a URL is navigable
isNavigable_IgnoresRecordType(record) == Boolean(recordUrl(record))

\* get isNavigable
isNavigable(record) ==
    /\ Boolean(recordUrl(record))
    /\ (IF record = noRecord THEN undefined ELSE record.recordType) # "history"

\* get isHistoryRecord
isHistoryRecord(record) ==
    (IF record = noRecord THEN undefined ELSE record.recordType) = "history"

\* the parent sets the @api property record
record(value) ==
    /\ Mounted("item")
    /\ item' = [item EXCEPT !.record = value]
    /\ op' = "record"
    /\ UNCHANGED <<component, viewer, report, config, wires, net, seen>>

\* the fields of the item after handleTitleClick(event)
titleClicked(event) ==
    IF isNavigable(item.record) /\ Boolean(recordId(item.record))
    THEN [item EXCEPT
             !.event = [event EXCEPT !.defaultPrevented = TRUE],
             !.navigated = Append(@, [ type       |-> "standard__recordPage",
                                       recordId   |-> recordId(item.record),
                                       actionName |-> "view" ])]
    ELSE [item EXCEPT !.event = event]

handleTitleClick ==
    /\ Mounted("item")
    /\ Len(item.navigated) < MaxNavigations
    /\ item' = titleClicked([type |-> "click", key |-> undefined, defaultPrevented |-> FALSE])
    /\ op' = "handleTitleClick"
    /\ UNCHANGED <<component, viewer, report, config, wires, net, seen>>

handleKeyDown(key) ==
    /\ Mounted("item")
    /\ Len(item.navigated) < MaxNavigations
    /\ LET event == [type |-> "keydown", key |-> key, defaultPrevented |-> FALSE]
       IN  item' = IF key = "Enter" \/ key = " "
                   THEN titleClicked(event)
                   ELSE [item EXCEPT !.event = event]
    /\ op' = "handleKeyDown"
    /\ UNCHANGED <<component, viewer, report, config, wires, net, seen>>

itemNext ==
    \/ \E value \in Records : record(value)
    \/ handleTitleClick
    \/ \E key \in Keys : handleKeyDown(key)

-----------------------------------------------------------------------------
(* Specifications *)

\* the state after construction of one of components, in one of timeZones
Constructed(components, timeZones, errors) ==
    /\ component \in components
    /\ viewer = viewerInit
    /\ report = reportInit
    /\ config = configInit
    /\ item = itemInit
    /\ wires = [objectTypes |-> "initial", recordCount |-> "initial", timeline |-> "initial",
                configs |-> "initial", objects |-> "initial"]
    /\ net = EmptyBag
    /\ op = "constructor"
    /\ seen \in [rows : {0}, sinceFirstPage : {FALSE}, refreshes : {0},
                 timeZone : timeZones, today : {0},
                 applied : {[selectedObjects |-> <<>>, startDate |-> <<>>, endDate |-> <<>>]},
                 dispatched : {<<>>}, errorToast : {""}, error : errors]

Init == Constructed({"viewer", "report", "config", "item"}, {"UTC"}, Errors)

Next == viewerNext \/ reportNext \/ configNext \/ itemNext

Spec == Init /\ [][Next]_vars

\* the timeline viewer alone
InitViewer == Init /\ Mounted("viewer")

SpecViewer == InitViewer /\ [][viewerNext]_vars

\* the history report alone
InitReport == Init /\ Mounted("report")

SpecReport == InitReport /\ [][reportNext]_vars

\* the configuration modal alone
InitConfig == Init /\ Mounted("config")

SpecConfig == InitConfig /\ [][configNext]_vars

\* one timeline item alone
InitItem == Init /\ Mounted("item")

SpecItem == InitItem /\ [][itemNext]_vars

\* the report's server query: object selection, apply and load more, without the
\* client-side filters and sorts
queryNext ==
    \/ \E value \in ObjectSelections : handleObjectSelection(value)
    \/ handleApplyFilters
    \/ \E request \in Pending({"Promise.all"}) :
          \E reportResult \in ReportResults(request), count \in ReportCounts :
             handleApplyFiltersResolved(request, reportResult, count)
    \/ \E request \in BagToSet(net), error \in Errors :
          handleApplyFiltersRejected(request, error)
    \/ report_handleLoadMore
    \/ \E request \in Pending({"getHistoryReport"}) :
          \E result \in ReportResults(request) :
             report_handleLoadMoreResolved(request, result)
    \/ \E request \in BagToSet(net), error \in Errors :
          report_handleLoadMoreRejected(request, error)

SpecQuery == InitReport /\ [][queryNext]_vars

\* a 'save' event of the configuration modal that its parent has yet to handle:
\* dispatchEvent runs the parent's listener before the dispatching step goes on
saveDispatched ==
    /\ op \in {"saveConfiguration.resolved", "handleRemoveConfig.resolved"}
    /\ includes(seen.dispatched, "save")

\* the viewer with its configuration modal: the viewer opens and closes the modal,
\* the modal adds and removes configurations, and the viewer's listener for the
\* modal's 'save' event is handleConfigSaved; the viewer's wires deliver one
\* fixed record, its filters and paging are left out
modalNext ==
    \/ ~saveDispatched /\ wiredRecordCount(1)
    \/ ~saveDispatched /\ wiredTimeline(TimelinePage(1))
    \/ ~saveDispatched /\ \E w \in {"timeline", "recordCount"} : wireUnchanged(w)
    \/ ~saveDispatched /\ \E request \in BagToSet(net) : refreshDataSettled(request)
    \/ ~saveDispatched /\ handleConfigClick
    \/ ~saveDispatched /\ handleConfigClose
    \/ ~saveDispatched /\ \E data \in ConfigData : wiredConfigs(data)
    \/ ~saveDispatched /\ \E data \in AvailableObjectsData : wiredObjects(data)
    \/ ~saveDispatched /\ \E value \in ObjectChoices : handleObjectChange(value)
    \/ ~saveDispatched /\ \E request \in BagToSet(net), savedId \in SavedIds :
                             saveConfigurationResolved(request, savedId)
    \/ ~saveDispatched /\ \E request \in BagToSet(net), error \in Errors :
                             saveConfigurationRejected(request, error)
    \/ ~saveDispatched /\ \E configId \in ConfigIds : handleRemoveConfig(configId)
    \/ ~saveDispatched /\ \E request \in BagToSet(net) : handleRemoveConfigResolved(request)
    \/ ~saveDispatched /\ \E request \in BagToSet(net), error \in Errors :
                             handleRemoveConfigRejected(request, error)
    \/ saveDispatched /\ handleConfigSaved

InitModal == Init /\ Mounted("viewer")

SpecModal == InitModal /\ [][modalNext]_vars

\* the date range of the report's filter panel, in every time zone
InitDates == Constructed({"report"}, TimeZones, Errors)

SpecDates == InitDates /\ [][datesNext]_vars

\* the three components, each with the handlers that report an error, and with
\* the error value that failing calls and wires deliver drawn at construction
errorsNext ==
    \/ wiredRecordCount(1)
    \/ wiredTimeline(TimelinePage(0))
    \/ wiredTimelineError(seen.error)
    \/ viewer_handleLoadMore
    \/ \E request \in BagToSet(net) : viewer_handleLoadMoreRejected(request, seen.error)
    \/ handleApplyFilters
    \/ \E request \in BagToSet(net) : handleApplyFiltersRejected(request, seen.error)
    \/ wiredConfigsError(seen.error)
    \/ \E configId \in ConfigIds : handleRemoveConfig(configId)
    \/ \E request \in BagToSet(net) : handleRemoveConfigRejected(request, seen.error)

InitErrors == Constructed({"viewer", "report", "config"}, {"UTC"}, ErrorValues)

SpecErrors == InitErrors /\ [][errorsNext]_vars

-----------------------------------------------------------------------------
(* Properties *)

\* the rows of records whose objectApiName is one of the values in filters
RowsOfTypes(records, filters) ==
    SelectSeq(records, LAMBDA row : row.objectApiName \in Range(filters))

\* C1: in every reachable state of the timeline viewer, filteredRecords is exactly
\* the rows of timelineRecords, in order, whose objectApiName is in selectedFilters
\* (and is empty when selectedFilters is empty).
C1_FilteredIsSelection ==
    Mounted("viewer") =>
        viewer.filteredRecords = RowsOfTypes(viewer.timelineRecords, viewer.selectedFilters)

\* C3: after the first page and any number of successful load-more completions, with
\* no refresh since, currentOffset is the sum of the row counts returned; and every
\* getTimelineData call that handleLoadMore issues carries the currentOffset of the
\* moment of the call.
C3_OffsetIsSumOfReturnedRows ==
    /\ [](seen.sinceFirstPage => viewer.currentOffset = seen.rows)
    /\ [][\A request \in BagToSet(net') :
             (request.call = "getTimelineData" /\ CopiesIn(request, net') > CopiesIn(request, net))
                 => request.offsetCount = viewer.currentOffset]_vars

C3_Witness ==
    /\ op = "handleLoadMore.resolved"
    /\ seen.sinceFirstPage
    /\ viewer.currentOffset = 2
    /\ Len(viewer.timelineRecords) = 2
    /\ viewer.totalRecordCount = 2

\* C4 as stated: after a page load completes, hasMoreRecords is false exactly when
\* currentOffset >= totalRecordCount or the page just fetched held fewer rows than
\* maxRecords.
C4_Original ==
    [][/\ op' = "handleLoadMore.resolved" =>
            (~viewer'.hasMoreRecords <=>
                \/ viewer'.currentOffset >= viewer'.totalRecordCount
                \/ Len(viewer'.timelineRecords) - Len(viewer.timelineRecords) < maxRecords)
       /\ op' = "wiredTimeline" =>
            (~viewer'.hasMoreRecords <=>
                \/ viewer'.currentOffset >= viewer'.totalRecordCount
                \/ Len(viewer'.timelineRecords) < maxRecords)]_vars

\* C4 amended: after a load-more completes, hasMoreRecords is false exactly when
\* currentOffset >= totalRecordCount or the page was empty; after the first page it
\* is false exactly when currentOffset >= totalRecordCount.  A short, non-empty page
\* does not clear it.
C4_HasMoreAfterPage ==
    [][/\ op' = "handleLoadMore.resolved" =>
            (~viewer'.hasMoreRecords <=>
                \/ viewer'.currentOffset >= viewer'.totalRecordCount
                \/ Len(viewer'.timelineRecords) = Len(viewer.timelineRecords))
       /\ op' = "wiredTimeline" =>
            (~viewer'.hasMoreRecords <=>
                viewer'.currentOffset >= viewer'.totalRecordCount)]_vars

C4_Witness ==
    /\ op = "handleLoadMore.resolved"
    /\ Len(viewer.timelineRecords) = 1
    /\ viewer.currentOffset = 1
    /\ viewer.totalRecordCount = 2
    /\ viewer.hasMoreRecords

\* C8: every value in selectedFilters is the value of an objectTypes entry, and an
\* entry is selected exactly when its value is in selectedFilters, with variant
\* 'brand' when selected and 'neutral' otherwise.
C8_SelectionMatchesObjectTypes ==
    Mounted("viewer") =>
        /\ \A f \in Range(viewer.selectedFilters) :
              \E type \in Range(viewer.objectTypes) : type.value = f
        /\ \A type \in Range(viewer.objectTypes) :
              /\ type.selected <=> type.value \in Range(viewer.selectedFilters)
              /\ type.variant = IF type.selected THEN "brand" ELSE "neutral"

C8_Witness ==
    /\ op = "handleFilterClick"
    /\ Len(viewer.objectTypes) = 2
    /\ viewer.objectTypes[1].selected
    /\ ~viewer.objectTypes[2].selected
    /\ viewer.selectedFilters = <<"Account">>

\* the fields of the report other than those in fields keep their values
ReportFrame(fields) == \A f \in (DOMAIN report) \ fields : report'[f] = report[f]

\* C2: handleLoadMore called while "has more" is false issues no remote call and
\* leaves every state variable unchanged, in the timeline viewer (hasMoreRecords)
\* and in the history report (hasMore).
C2_LoadMoreNoOp ==
    [][op' = "handleLoadMore" =>
          /\ (Mounted("viewer") /\ ~viewer.hasMoreRecords) =>
                 UNCHANGED <<viewer, wires, net, seen>>
          /\ (Mounted("report") /\ ~report.hasMore) =>
                 UNCHANGED <<report, net>>]_vars

C2_Witness ==
    /\ Mounted("report")
    /\ op = "handleLoadMore"
    /\ ~report.hasMore
    /\ report.hasSearched
    /\ Len(report.allLoadedData) > 0
    /\ net = EmptyBag

\* C5: handleFieldFilterInput and handleChangedByFilterInput issue no remote call
\* and change only fieldFilter / changedByFilter and tableData; allLoadedData,
\* currentOffset, hasMore and totalCount keep their values.
C5_ClientFiltersFrame ==
    [][/\ op' = "handleFieldFilterInput" =>
            net' = net /\ ReportFrame({"fieldFilter", "tableData"})
       /\ op' = "handleChangedByFilterInput" =>
            net' = net /\ ReportFrame({"changedByFilter", "tableData"})]_vars

C5_Witness ==
    /\ op = "handleFieldFilterInput"
    /\ report.fieldFilter = <<"b">>
    /\ Len(report.allLoadedData) = 2
    /\ Len(report.tableData) = 1
    /\ report.hasMore

\* C6: once both client filters are back to the empty string, tableData is the full
\* allLoadedData, same rows in the same order, whatever filter inputs and column
\* sorts came before.
C6_ClearingFiltersRestoresAll ==
    (/\ op \in {"handleFieldFilterInput", "handleChangedByFilterInput"}
     /\ report.fieldFilter = <<>>
     /\ report.changedByFilter = <<>>)
        => report.tableData = report.allLoadedData

C6_Witness ==
    /\ op = "handleChangedByFilterInput"
    /\ report.fieldFilter = <<>>
    /\ report.changedByFilter = <<>>
    /\ report.sortedBy = "fieldChanged"
    /\ report.sortedDirection = "asc"
    /\ Len(report.tableData) = 2

\* C7 as stated: no operation ever takes currentOffset, of the viewer or of the
\* report, to a smaller value.
C7_Original ==
    [][/\ viewer'.currentOffset >= viewer.currentOffset
       /\ report'.currentOffset >= report.currentOffset]_vars

\* C7 amended: currentOffset decreases only where the dataset is started over: in the
\* viewer by refreshData (to 0) or a wiredTimeline delivery (to the length of the page
\* delivered), in the report by handleApplyFilters (to 0).  Load-more, its
\* completions and every other operation never decrease it.
C7_OffsetDecreasesOnlyOnReset ==
    [][/\ viewer'.currentOffset < viewer.currentOffset
            => op' \in {"refreshData", "wiredTimeline"}
       /\ report'.currentOffset < report.currentOffset
            => op' = "handleApplyFilters"]_vars

C7_Witness ==
    /\ Mounted("report")
    /\ op = "handleLoadMore.rejected"
    /\ report.currentOffset = 2 * PAGE_SIZE

\* C10: when handleApplyFilters ends in its catch branch (either remote call failed),
\* allLoadedData and tableData are empty, totalCount is null, hasMore and hasSearched
\* are false, errorMessage is non-empty and isPageLoading is false.
C10_ApplyAllOrNothing ==
    op = "handleApplyFilters.rejected" =>
        /\ report.allLoadedData = <<>>
        /\ report.tableData = <<>>
        /\ report.totalCount = nullCount
        /\ ~report.hasMore
        /\ ~report.hasSearched
        /\ report.errorMessage # ""
        /\ ~report.isPageLoading

\* C9: a successful handleRemoveConfig for identifier X removes from existingConfigs
\* exactly the entries whose id is X; every other entry stays, in the same relative
\* order.
C9_RemoveExactlyThatId ==
    [][op' = "handleRemoveConfig.resolved" =>
          \E request \in BagToSet(net) :
              /\ request.call = "deleteChildConfiguration"
              /\ net' = net (-) SetToBag({request})
              /\ config'.existingConfigs =
                     SelectSeq(config.existingConfigs, LAMBDA c : c.id # request.configId)]_vars

C9_Witness ==
    /\ op = "handleRemoveConfig.resolved"
    /\ Len(config.existingConfigs) = 2
    /\ config.existingConfigs[1].id = "c1"
    /\ config.existingConfigs[2].id = "c3"

\* C11: when the object handed to handleObjectChange has no relationship field in
\* availableObjects, or is not in availableObjects at all, the handler leaves a
\* non-empty relationshipError and an empty selectedRelationshipField, issues no
\* call, leaves existingConfigs as it was, and isSaveDisabled is true afterwards.
C11_NoRelationshipBlocksSave ==
    [][(/\ op' = "handleObjectChange"
        /\ ~\E i \in 1..Len(config.availableObjects) :
               /\ config.availableObjects[i].value = config'.selectedObject
               /\ config.availableObjects[i].relationshipField # "")
          => /\ config'.relationshipError # ""
             /\ config'.selectedRelationshipField = ""
             /\ net' = net
             /\ config'.existingConfigs = config.existingConfigs
             /\ isSaveDisabled(config')]_vars

C11_Witness ==
    /\ op = "handleObjectChange"
    /\ config.selectedObject = "Note"
    /\ Len(config.availableObjects) = 2
    /\ config.relationshipError # ""
    /\ config.isSaving

\* the text YYYY-MM-DD of a calendar date
isoDate(year, month, date) ==
    String(year) \o <<"-">> \o padStart(String(month), 2, <<"0">>)
                 \o <<"-">> \o padStart(String(date), 2, <<"0">>)

\* the text of the calendar date a number of days before a calendar date
isoDateBefore(d, days) ==
    LET c == civil(MakeDay(d.year, d.month, d.date) - days)
    IN  isoDate(c.year, c.month, c.date)

\* C12: handleDatePreset sets endDate to today; startDate to today minus 6, 29 and 89
\* days for last7, last30 and last90, to January 1 of the current year for ytd, and
\* to the same month and day one calendar year earlier for lastYear.
C12_PresetDates ==
    [][op' = "handleDatePreset" =>
          LET today == localTime(seen'.today, seen'.timeZone)
              preset == report'.activePreset
          IN  /\ report'.endDate = isoDate(today.year, today.month, today.date)
              /\ preset = "last7"    => report'.startDate = isoDateBefore(today, 6)
              /\ preset = "last30"   => report'.startDate = isoDateBefore(today, 29)
              /\ preset = "last90"   => report'.startDate = isoDateBefore(today, 89)
              /\ preset = "ytd"      => report'.startDate = isoDate(today.year, 1, 1)
              /\ preset = "lastYear" =>
                     report'.startDate = isoDate(today.year - 1, today.month, today.date)]_vars

\* C13: the viewer leaves hasError = true only when the timeline wire delivers data
\* after a refresh, and the report leaves a non-empty errorMessage only in
\* handleApplyFilters; no filter toggle, client-filter input, sort, load-more or
\* completion clears either; and a remote call is issued only by handleLoadMore,
\* refreshData and handleApplyFilters, never by the step that handles a failure.
C13_ErrorLeftOnlyByRetry ==
    [][/\ (viewer.hasError /\ ~viewer'.hasError)
            => (op' = "wiredTimeline" /\ wires.timeline = "refresh")
       /\ (report.errorMessage # "" /\ report'.errorMessage = "")
            => op' = "handleApplyFilters"
       /\ ((Mounted("viewer") \/ Mounted("report"))
              /\ \E request \in BagToSet(net') :
                     CopiesIn(request, net') > CopiesIn(request, net))
            => op' \in {"handleLoadMore", "refreshData", "handleApplyFilters"}]_vars

C13_Witness ==
    /\ Mounted("viewer")
    /\ op = "handleLoadMore.resolved"
    /\ viewer.hasError
    /\ Len(viewer.timelineRecords) = 2
    /\ wires.timeline = "idle"

occurrences(rows, row) == Cardinality({i \in 1..Len(rows) : rows[i] = row})

\* a field value contains a filter text, letters compared without regard to case; the
\* empty filter is contained in everything, a missing value contains nothing else
containsIgnoringCase(value, filter) ==
    \/ filter = <<>>
    \/ /\ value # null
       /\ \E from \in 1..Len(value), to \in 1..Len(value) :
             toLowerCase(SubSeq(value, from, to)) = toLowerCase(filter)

\* C15: in every reachable state of the report, tableData holds exactly the rows of
\* allLoadedData whose fieldChanged contains fieldFilter and whose changedBy contains
\* changedByFilter, case-insensitively, each as often as allLoadedData holds it and in
\* any order (a column sort permutes them).
C15_TableIsFilteredData ==
    Mounted("report") =>
        LET matching == SelectSeq(report.allLoadedData, LAMBDA r :
                            /\ containsIgnoringCase(r.fieldChanged, report.fieldFilter)
                            /\ containsIgnoringCase(r.changedBy, report.changedByFilter))
        IN  /\ Len(report.tableData) = Len(matching)
            /\ \A row \in Range(matching) \cup Range(report.tableData) :
                  occurrences(report.tableData, row) = occurrences(matching, row)

C15_Witness ==
    /\ op = "handleLoadMore.resolved"
    /\ report.fieldFilter = <<"A">>
    /\ report.changedByFilter = <<>>
    /\ Len(report.allLoadedData) = 2
    /\ Len(report.tableData) = 2
    /\ report.sortedBy = "changedBy"

\* C16: whenever the remote calls of a handleApplyFilters invocation resolve,
\* allLoadedData, hasMore and totalCount become those of that response, whichever
\* in-flight invocation it belongs to: an earlier invocation that resolves after a
\* later one overwrites the later one's data.
C16_LastResponseWins ==
    [][op' = "handleApplyFilters.resolved" =>
          \E request \in BagToSet(net) :
              /\ request.call = "Promise.all"
              /\ net' = net (-) SetToBag({request})
              /\ \E reportResult \in ReportResults(request) :
                    /\ report'.allLoadedData = reportResult.records
                    /\ report'.hasMore = reportResult.hasMore
              /\ report'.totalCount # nullCount
              /\ report'.hasSearched]_vars

C16_Witness ==
    /\ op = "handleApplyFilters.resolved"
    /\ net = EmptyBag
    /\ seen.applied.selectedObjects = <<"Contact">>
    /\ report.selectedObjects = <<"Contact">>
    /\ Len(report.allLoadedData) = 2
    /\ report.allLoadedData[1].objectLabel = "Account"
    /\ report.allLoadedData[2].objectLabel = "Account"

\* C17: every row of allLoadedData was returned for the query of the most recent
\* handleApplyFilters call: its object is the object of that query.
C17_RowsOfLastAppliedQuery ==
    Mounted("report") =>
        \A i \in 1..Len(report.allLoadedData) :
            report.allLoadedData[i].objectLabel = objectLabel(seen.applied.selectedObjects)

\* C18: once the count wire and the timeline wire have both delivered, whichever
\* came first, hasMoreRecords is (currentOffset < totalRecordCount).  The state
\* examined is the one the second delivery leaves (no page has been loaded in
\* between: seen.sinceFirstPage says the rows are those of the first page).
C18_HasMoreAfterBothWires ==
    ( /\ Mounted("viewer")
      /\ op \in {"wiredRecordCount", "wiredTimeline"}
      /\ seen.sinceFirstPage
      /\ wires.timeline = "idle"
      /\ wires.recordCount = "idle" )
    => (viewer.hasMoreRecords <=> viewer.currentOffset < viewer.totalRecordCount)

\* C19: whenever nothing is in flight (no remote call pending, no wire waiting to
\* deliver), currentOffset is the number of rows in timelineRecords.
C19_OffsetIsRowCount ==
    ( /\ Mounted("viewer")
      /\ net = EmptyBag
      /\ wires.timeline = "idle"
      /\ wires.recordCount = "idle" )
    => viewer.currentOffset = Len(viewer.timelineRecords)

\* C20: no page is requested twice between two resets, not even by a second
\* handleLoadMore that runs before the first has settled: of the load-more
\* requests of the timeline and of the report, no two in flight are the same
\* request (same offset).
C20_NoPageRequestedTwice ==
    \A request \in BagToSet(net) :
        (request.call \in {"getTimelineData", "getHistoryReport"})
            => CopiesIn(request, net) <= 1

\* C21: a load-more of the report that passes its guard advances currentOffset by
\* exactly PAGE_SIZE and requests the page at the new offset; when the page
\* arrives its rows are appended to the end of allLoadedData, hasMore is the flag
\* of the response, tableData is recomputed from the client filters and the
\* offset stays where the request put it.
C21_LoadMoreAdvancesAndAppends ==
    [][/\ (op' = "handleLoadMore" /\ report' # report) =>
             /\ report'.currentOffset = report.currentOffset + PAGE_SIZE
             /\ report'.currentOffset = report.currentOffset + 50
             /\ \E request \in BagToSet(net') :
                   /\ request.call = "getHistoryReport"
                   /\ request.offsetCount = report'.currentOffset
                   /\ request.limitCount = PAGE_SIZE
                   /\ net' = net (+) SetToBag({request})
             /\ report'.allLoadedData = report.allLoadedData
       /\ op' = "handleLoadMore.resolved" =>
             \E request \in Pending({"getHistoryReport"}) :
                 \E result \in ReportResults(request) :
                     /\ net' = net (-) SetToBag({request})
                     /\ report'.allLoadedData = report.allLoadedData \o result.records
                     /\ report'.hasMore = result.hasMore
                     /\ report'.tableData =
                            _applyClientFilters(report'.allLoadedData,
                                                report.fieldFilter, report.changedByFilter)
                     /\ report'.currentOffset = report.currentOffset]_vars

\* a second page of one row has been appended behind a first page of one row, with
\* the offset one page on
C21_Witness ==
    /\ op = "handleLoadMore.resolved"
    /\ Mounted("report")
    /\ report.currentOffset = PAGE_SIZE
    /\ Len(report.allLoadedData) = 2
    /\ report.allLoadedData[1].fieldChanged = ReportRow(0).fieldChanged
    /\ report.allLoadedData[2].fieldChanged = ReportRow(1).fieldChanged
    /\ report.tableData = report.allLoadedData

\* C22: a load-more that fails leaves the pagination state as it was before the
\* call: allLoadedData, tableData and hasMore keep their values and currentOffset
\* is back at the offset from which the failed request was made (one page before
\* the offset the request asked for), so that the retry asks for the same page.
C22_FailedLoadMoreKeepsCursor ==
    [][op' = "handleLoadMore.rejected" =>
          \E request \in Pending({"getHistoryReport"}) :
              /\ net' = net (-) SetToBag({request})
              /\ report'.allLoadedData = report.allLoadedData
              /\ report'.tableData = report.tableData
              /\ report'.hasMore = report.hasMore
              /\ report'.currentOffset = request.offsetCount - PAGE_SIZE]_vars

\* C23: selecting a child object that has a relationship field issues, in the same
\* step, exactly one saveChildConfiguration call for that object, its label and
\* its relationship field; when the call succeeds one active entry with the
\* returned id and the object, label and relationship field that were saved is
\* appended to the end of existingConfigs, the entries before it are unchanged,
\* and the add form is hidden and reset.
C23_SelectSavesAndAppends ==
    [][/\ ( /\ op' = "handleObjectChange"
            /\ \E i \in 1..Len(config.availableObjects) :
                  /\ config.availableObjects[i].value = config'.selectedObject
                  /\ config.availableObjects[i].relationshipField # "" )
          => \E i \in 1..Len(config.availableObjects) :
                /\ config.availableObjects[i].value = config'.selectedObject
                /\ net' = net (+) SetToBag({
                      [ call               |-> "saveChildConfiguration",
                        childObjectApiName |-> config.availableObjects[i].value,
                        childObjectLabel   |-> config.availableObjects[i].label,
                        relationshipField  |-> config.availableObjects[i].relationshipField ]})
       /\ op' = "saveConfiguration.resolved"
          => \E request \in Pending({"saveChildConfiguration"}), savedId \in SavedIds :
                /\ net' = net (-) SetToBag({request})
                /\ config'.existingConfigs =
                      Append(config.existingConfigs,
                             ConfigRow(savedId, request.childObjectApiName,
                                       request.childObjectLabel, request.relationshipField,
                                       TRUE))
                /\ ~config'.showAddForm
                /\ config'.selectedObject = ""
                /\ config'.selectedRelationshipField = ""
                /\ config'.childObjectLabel = ""
                /\ config'.relationshipError = ""]_vars

\* C25: when saveChildConfiguration or deleteChildConfiguration fails,
\* existingConfigs is unchanged, no 'save' event is dispatched, an error toast is
\* shown, and after a failed save isSaving is false.
C25_FailureLeavesConfigs ==
    [][op' \in {"saveConfiguration.rejected", "handleRemoveConfig.rejected"} =>
          /\ config'.existingConfigs = config.existingConfigs
          /\ ~includes(seen'.dispatched, "save")
          /\ includes(seen'.dispatched, "toast.error")
          /\ ~includes(seen'.dispatched, "toast.success")
          /\ op' = "saveConfiguration.rejected" => ~config'.isSaving]_vars

\* a save has failed with configurations loaded: the list is as loaded, only the
\* error toast went out and the form can save again
C25_Witness ==
    /\ op = "saveConfiguration.rejected"
    /\ Len(config.existingConfigs) = 2
    /\ config.selectedObject = "Task"
    /\ seen.dispatched = <<"toast.error">>
    /\ ~config.isSaving
    /\ net = EmptyBag

\* C26: existingConfigs never holds two active entries for the same child object,
\* no actively configured child is among objectOptions, and the same child is
\* never being saved twice at once (a second selection while the first save is in
\* flight issues no second saveChildConfiguration call).
C26_NoDuplicateActiveChild ==
    Mounted("config") =>
        /\ \A i, j \in 1..Len(config.existingConfigs) :
              ( /\ i # j
                /\ config.existingConfigs[i].isActive
                /\ config.existingConfigs[j].isActive )
              => config.existingConfigs[i].childObjectApiName
                     # config.existingConfigs[j].childObjectApiName
        /\ \A i \in 1..Len(config.existingConfigs) :
              config.existingConfigs[i].isActive
              => \A k \in 1..Len(objectOptions(config)) :
                    objectOptions(config)[k].value
                        # config.existingConfigs[i].childObjectApiName
        /\ \A request \in Pending({"saveChildConfiguration"}) : CopiesIn(request, net) <= 1

\* C24: each successful add and each successful delete of the configuration modal
\* dispatches exactly one 'save' event; the viewer receives it in handleConfigSaved,
\* which runs next, closes the modal and starts a refresh (isLoading set, the
\* offset reset, both wires refreshed, the refreshApex pair awaited).
C24_SaveEventRefreshesViewer ==
    [][/\ op' \in {"saveConfiguration.resolved", "handleRemoveConfig.resolved"}
          => Cardinality({i \in 1..Len(seen'.dispatched) : seen'.dispatched[i] = "save"}) = 1
       /\ saveDispatched => op' = "handleConfigSaved"
       /\ op' = "handleConfigSaved"
          => /\ saveDispatched
             /\ ~viewer'.showConfigModal
             /\ viewer'.isLoading
             /\ viewer'.currentOffset = 0
             /\ wires'.timeline = "refresh"
             /\ wires'.recordCount = "refresh"
             /\ net' = net (+) SetToBag({refreshApex})
             /\ config' = config]_vars

\* a configuration was added in the open modal, and the viewer has closed the
\* modal and is refreshing
C24_Witness ==
    /\ op = "handleConfigSaved"
    /\ Len(config.existingConfigs) = 1
    /\ config.existingConfigs[1].id = "c3"
    /\ config.existingConfigs[1].childObjectApiName = "Task"
    /\ ~viewer.showConfigModal
    /\ viewer.isLoading
    /\ BagIn(refreshApex, net)

\* the rows of a table are in the order of a column: keys compared without regard
\* to case, a missing value as the empty string
ordered(rows, fieldName, sortDirection) ==
    \A i, j \in 1..Len(rows) :
        i < j =>
            IF sortDirection = "asc"
            THEN ~strLess(sortKey(rows[j], fieldName), sortKey(rows[i], fieldName))
            ELSE ~strLess(sortKey(rows[i], fieldName), sortKey(rows[j], fieldName))

\* the rows of a table whose key in a column is that of a given row, in table order
sameKey(rows, row, fieldName) ==
    SelectSeq(rows, LAMBDA r : sortKey(r, fieldName) = sortKey(row, fieldName))

\* C27: handleSort(field, direction) leaves in tableData a permutation of its
\* previous rows, ordered by that field in that direction (case-insensitive, a
\* missing value as the empty string), rows with equal keys in their previous
\* relative order; allLoadedData, currentOffset and hasMore are unchanged and no
\* remote call is made.
C27_SortIsStablePermutation ==
    [][op' = "handleSort" =>
          /\ \A i \in 1..Len(report.tableData) :
                occurrences(report'.tableData, report.tableData[i])
                    = occurrences(report.tableData, report.tableData[i])
          /\ Len(report'.tableData) = Len(report.tableData)
          /\ ordered(report'.tableData, report'.sortedBy, report'.sortedDirection)
          /\ \A i \in 1..Len(report.tableData) :
                sameKey(report'.tableData, report.tableData[i], report'.sortedBy)
                    = sameKey(report.tableData, report.tableData[i], report'.sortedBy)
          /\ report'.allLoadedData = report.allLoadedData
          /\ report'.currentOffset = report.currentOffset
          /\ report'.hasMore = report.hasMore
          /\ net' = net]_vars

\* two different rows whose Changed By values differ only in case have been sorted
\* by that column and have kept the order in which they were loaded
C27_Witness ==
    /\ op = "handleSort"
    /\ Len(report.tableData) = 2
    /\ report.tableData[1] # report.tableData[2]
    /\ report.sortedBy = "changedBy"
    /\ sortKey(report.tableData[1], "changedBy") = sortKey(report.tableData[2], "changedBy")
    /\ report.tableData[1].changedBy # report.tableData[2].changedBy
    /\ report.tableData = report.allLoadedData

\* C28: after a handleSort, tableData stays in the order that sortedBy and
\* sortedDirection name through client-filter inputs and load-more completions,
\* until the next sort or apply.  Stated for the first such step after a sort:
\* the filter input or the load-more completion that follows a handleSort leaves
\* tableData ordered as the indicator says.
C28_TableOrderMatchesIndicator ==
    [][( /\ op = "handleSort"
         /\ op' \in {"handleFieldFilterInput", "handleChangedByFilterInput",
                     "handleLoadMore.resolved"} )
       => ordered(report'.tableData, report'.sortedBy, report'.sortedDirection)]_vars

\* C29: handleFilterClick, handleSelectAll and handleClearAll make no remote call
\* and change nothing but objectTypes, selectedFilters and filteredRecords; and a
\* second click on the same filter button brings back the selection set and the
\* filteredRecords of before the first.
C29_FiltersFrameAndToggle ==
    [][/\ op' \in {"handleFilterClick", "handleSelectAll", "handleClearAll"}
          => /\ net' = net
             /\ wires' = wires
             /\ viewer' = [viewer EXCEPT
                              !.objectTypes = viewer'.objectTypes,
                              !.selectedFilters = viewer'.selectedFilters,
                              !.filteredRecords = viewer'.filteredRecords]
       /\ op' = "handleFilterClick"
          => \E filterValue \in Types :
                /\ viewer' = filterClicked(viewer, filterValue)
                /\ Range(filterClicked(viewer', filterValue).selectedFilters)
                       = Range(viewer.selectedFilters)
                /\ filterClicked(viewer', filterValue).filteredRecords
                       = viewer.filteredRecords]_vars

\* C30: every handleApplyFilters that succeeds rebuilds the dataset from scratch:
\* when its calls resolve, allLoadedData is exactly the page returned,
\* currentOffset is 0, totalCount is the count returned, hasMore is the flag
\* returned, hasSearched is true and errorMessage is empty.
C30_ApplyRebuildsDataset ==
    [][op' = "handleApplyFilters.resolved" =>
          \E request \in Pending({"Promise.all"}) :
              \E reportResult \in ReportResults(request), count \in ReportCounts :
                  /\ net' = net (-) SetToBag({request})
                  /\ report'.allLoadedData = reportResult.records
                  /\ report'.currentOffset = 0
                  /\ report'.totalCount = <<count>>
                  /\ report'.hasMore = reportResult.hasMore
                  /\ report'.hasSearched
                  /\ report'.errorMessage = ""]_vars

-----------------------------------------------------------------------------
(* C31: loading flags and the request lifecycle *)

\* the wire adapters of the viewer provision a value: data, an error, or (after
\* refreshApex) nothing new
wiresProvision ==
    \/ \E data \in 0..MaxTotal : wiredRecordCount(data)
    \/ wiredRecordCountError
    \/ \E data \in TimelinePages : wiredTimeline(data)
    \/ \E error \in Errors : wiredTimelineError(error)
    \/ \E w \in {"timeline", "recordCount"} : wireUnchanged(w)

\* a getTimelineData call of the viewer's handleLoadMore settles
viewerLoadMoreSettles ==
    \/ \E request \in BagToSet(net), moreRecords \in TimelinePages :
          viewer_handleLoadMoreResolved(request, moreRecords)
    \/ \E request \in BagToSet(net), error \in Errors :
          viewer_handleLoadMoreRejected(request, error)

\* the Promise.all of refreshData settles
refreshSettles == \E request \in BagToSet(net) : refreshDataSettled(request)

\* the Promise.all of the report's handleApplyFilters settles
applySettles ==
    \/ \E request \in Pending({"Promise.all"}) :
          \E reportResult \in ReportResults(request), count \in ReportCounts :
             handleApplyFiltersResolved(request, reportResult, count)
    \/ \E request \in BagToSet(net), error \in Errors :
          handleApplyFiltersRejected(request, error)

\* the getHistoryReport call of the report's handleLoadMore settles
reportLoadMoreSettles ==
    \/ \E request \in Pending({"getHistoryReport"}) :
          \E result \in ReportResults(request) :
             report_handleLoadMoreResolved(request, result)
    \/ \E request \in BagToSet(net), error \in Errors :
          report_handleLoadMoreRejected(request, error)

\* every remote call and every wire provisioning comes to an end: the platform
\* resolves or rejects each promise and runs its continuation
SpecFair ==
    /\ Spec
    /\ WF_vars(wiresProvision)
    /\ WF_vars(viewerLoadMoreSettles)
    /\ WF_vars(refreshSettles)
    /\ WF_vars(applySettles)
    /\ WF_vars(reportLoadMoreSettles)

\* a loading flag is set while a call it belongs to is in flight
LoadingWhileInFlight ==
    /\ Mounted("viewer") /\ Pending({"getTimelineData", "refreshApex"}) # {}
          => viewer.isLoading
    /\ Mounted("report") /\ Pending({"Promise.all"}) # {} => report.isPageLoading
    /\ Mounted("report") /\ Pending({"getHistoryReport"}) # {} => report.isTableLoading

\* a loading flag that is set is reset later
LoadingIsReset ==
    /\ (Mounted("viewer") /\ viewer.isLoading) ~> ~viewer.isLoading
    /\ (Mounted("report") /\ report.isPageLoading) ~> ~report.isPageLoading
    /\ (Mounted("report") /\ report.isTableLoading) ~> ~report.isTableLoading

\* C31: a loading flag (viewer isLoading; report isPageLoading for apply,
\* isTableLoading for load-more) is true whenever a corresponding remote request
\* is in flight, and after a request settled, by success or by failure, the flag
\* is eventually false again: the component does not stay stuck in loading
C31_LoadingFollowsRequests == []LoadingWhileInFlight /\ LoadingIsReset

-----------------------------------------------------------------------------
(* C32: error message reduction *)

\* a message that is present and not empty
nonEmpty(message) == message # undefined /\ message # nullValue /\ message # ""

\* the message the three helpers are to return for an error value
reducedMessage(error) ==
    LET hasBody == error.type = "object" /\ error.body.type = "object"
    IN  IF hasBody /\ nonEmpty(error.body.message) THEN error.body.message
        ELSE IF error.type = "object" /\ nonEmpty(error.message) THEN error.message
        ELSE "An unexpected error occurred."

\* C32: for every error value, getErrorMessage of the viewer, getErrorMessage of
\* the configuration modal and _extractMessage of the report return
\* error.body.message when it is non-empty, otherwise error.message when it is
\* non-empty, otherwise 'An unexpected error occurred.'; the three helpers agree
\* on every input.  Stated on what each component reports after the error arrived.
C32_ErrorMessageReduction ==
    /\ Mounted("viewer") /\ op \in {"wiredTimeline.error", "handleLoadMore.rejected"}
          => viewer.errorMessage = reducedMessage(seen.error)
    /\ Mounted("report") /\ op = "handleApplyFilters.rejected"
          => report.errorMessage = reducedMessage(seen.error)
    /\ Mounted("config") /\ op \in {"wiredConfigs.error", "handleRemoveConfig.rejected"}
          => seen.errorToast = reducedMessage(seen.error)
    /\ viewer_getErrorMessage(seen.error) = _extractMessage(seen.error)
    /\ config_getErrorMessage(seen.error) = _extractMessage(seen.error)

\* the viewer received an error with both messages and shows that of the body
C32_Witness ==
    /\ Mounted("viewer")
    /\ op = "handleLoadMore.rejected"
    /\ seen.error = errorObject(errorBody("Denied"), "Server error")
    /\ viewer.errorMessage = "Denied"

====
